---------------------------- MODULE Spec2Model ----------------------------
(***************************************************************************)
(* Model of the rip-progress engine of src/rip_disc.py:                    *)
(*   - DiscRipper.rip_titles   (job supervisor, protocol decoder,          *)
(*                              progress estimator, output file discovery) *)
(*   - DiscRipper._parse_makemkv_msg (MSG record decoder)                  *)
(*                                                                         *)
(* Text is modelled as sequences of one-character strings; the tokens      *)
(* "CR" and "LF" stand for the carriage-return and line-feed characters.   *)
(***************************************************************************)
EXTENDS Integers, Sequences, FiniteSets, TLC

(***************************************************************************)
(* Text helpers (Python str semantics)                                     *)
(***************************************************************************)
Digits == <<"0", "1", "2", "3", "4", "5", "6", "7", "8", "9">>

IsDigit(c) == \E i \in 1..10 : Digits[i] = c

DigitVal(c) == (CHOOSE i \in 1..10 : Digits[i] = c) - 1

IsSpace(c) == c \in {" ", "LF", "CR", "\t"}

\* s[a..b], empty when a > b
Slice(s, a, b) == IF a > b THEN <<>> ELSE SubSeq(s, a, b)

\* str.startswith(p)
StartsWith(s, p) == Len(s) >= Len(p) /\ SubSeq(s, 1, Len(p)) = p

\* str.strip(): drop leading and trailing white space
RECURSIVE LStrip(_)
LStrip(s) == IF s # <<>> /\ IsSpace(Head(s)) THEN LStrip(Tail(s)) ELSE s

RECURSIVE RStrip(_)
RStrip(s) ==
    IF s # <<>> /\ IsSpace(s[Len(s)]) THEN RStrip(SubSeq(s, 1, Len(s) - 1)) ELSE s

Strip(s) == RStrip(LStrip(s))

\* positions at which needle occurs in s
Occurrences(s, needle) ==
    {i \in 1..(Len(s) - Len(needle) + 1) : SubSeq(s, i, i + Len(needle) - 1) = needle}

\* "needle in s"
Contains(s, needle) == Occurrences(s, needle) # {}

\* str(n) for n >= 0: decimal digits
RECURSIVE DecStr(_)
DecStr(n) == IF n < 10 THEN <<Digits[n + 1]>> ELSE DecStr(n \div 10) \o <<Digits[(n % 10) + 1]>>

\* str.replace(old, new): leftmost, non-overlapping occurrences (old non-empty)
RECURSIVE Replace(_, _, _)
Replace(s, old, new) ==
    LET occ == Occurrences(s, old) IN
    IF occ = {} THEN s
    ELSE LET i == CHOOSE x \in occ : \A y \in occ : x <= y
         IN  Slice(s, 1, i - 1) \o new \o Replace(Slice(s, i + Len(old), Len(s)), old, new)

\* line.split(':', 1)[1]: the text after the first colon (the line has one)
AfterColon(s) ==
    LET colons == {i \in 1..Len(s) : s[i] = ":"}
        first  == CHOOSE i \in colons : \A j \in colons : i <= j
    IN  Slice(s, first + 1, Len(s))

(***************************************************************************)
(* int(text): optional surrounding white space, optional sign, decimal     *)
(* digits with single underscores between digits; anything else raises     *)
(* ValueError (ok = FALSE).                                                *)
(***************************************************************************)
RECURSIVE DigitsOk(_, _)
DigitsOk(s, prevDigit) ==
    IF s = <<>> THEN prevDigit
    ELSE IF IsDigit(Head(s)) THEN DigitsOk(Tail(s), TRUE)
    ELSE IF Head(s) = "_" THEN prevDigit /\ Tail(s) # <<>> /\ IsDigit(Tail(s)[1])
                               /\ DigitsOk(Tail(s), FALSE)
    ELSE FALSE

RECURSIVE DigitsVal(_, _)
DigitsVal(s, acc) ==
    IF s = <<>> THEN acc
    ELSE IF Head(s) = "_" THEN DigitsVal(Tail(s), acc)
    ELSE DigitsVal(Tail(s), acc * 10 + DigitVal(Head(s)))

ParseInt(text) ==
    LET t    == Strip(text)
        neg  == t # <<>> /\ Head(t) = "-"
        body == IF t # <<>> /\ Head(t) \in {"-", "+"} THEN Tail(t) ELSE t
    IN  IF DigitsOk(body, FALSE)
        THEN [ok |-> TRUE, val |-> IF neg THEN 0 - DigitsVal(body, 0) ELSE DigitsVal(body, 0)]
        ELSE [ok |-> FALSE, val |-> 0]

(***************************************************************************)
(* PRGV normalisation.  The float pct is kept exactly, in thousandths of   *)
(* a percent: raw / 1000.0 -> raw, raw / 100.0 -> raw * 10,                *)
(* float(raw) -> raw * 1000.                                               *)
(***************************************************************************)
\* a variant of ScaleMilli that reads every value above 100 as thousandths
ScaleMilliPerMille(raw) == IF raw > 100 THEN raw ELSE raw * 1000

ScaleMilli(raw) ==
    IF raw >= 100000 THEN raw
    ELSE IF raw > 100 THEN raw * 10
    ELSE raw * 1000

\* if pct > 100: pct = 100.0   (there is no lower clamp in the code)
ClampMilli(m) == IF m > 100000 THEN 100000 ELSE m

NormalizeMilli(raw) == ClampMilli(ScaleMilli(raw))

\* int(pct): truncation toward zero
TruncMilli(m) == IF m >= 0 THEN m \div 1000 ELSE 0 - ((0 - m) \div 1000)

PctInt(raw) == TruncMilli(NormalizeMilli(raw))

(***************************************************************************)
(* csv.reader([payload], escapechar='\\'): the reader's character state    *)
(* machine for one line (excel dialect: delimiter ",", quotechar '"',      *)
(* doublequote, not strict).  Result: [ok, fields]; ok = FALSE when the    *)
(* reader raises.                                                          *)
(***************************************************************************)
IsNewline(c) == c \in {"CR", "LF"}

\* the reader after one more character c; r = [st, cur, fields, ok]
CsvStep(r, c) ==
    LET Save(st2)  == [r EXCEPT !.st = st2, !.cur = <<>>, !.fields = Append(r.fields, r.cur)]
        Add(st2)   == [r EXCEPT !.st = st2, !.cur = Append(r.cur, c)]
        Move(st2)  == [r EXCEPT !.st = st2]
        InField ==
            IF IsNewline(c) THEN Save("EAT_CRNL")
            ELSE IF c = "\\" THEN Move("ESCAPED_CHAR")
            ELSE IF c = "," THEN Save("START_FIELD")
            ELSE Add("IN_FIELD")
        StartField ==
            IF IsNewline(c) THEN Save("EAT_CRNL")
            ELSE IF c = "\"" THEN Move("IN_QUOTED_FIELD")
            ELSE IF c = "\\" THEN Move("ESCAPED_CHAR")
            ELSE IF c = "," THEN Save("START_FIELD")
            ELSE Add("IN_FIELD")
    IN
    IF ~r.ok THEN r
    ELSE
    CASE r.st = "START_RECORD" -> IF IsNewline(c) THEN Move("EAT_CRNL") ELSE StartField
      [] r.st = "START_FIELD" -> StartField
      [] r.st = "ESCAPED_CHAR" ->
           IF IsNewline(c) THEN Add("AFTER_ESCAPED_CRNL") ELSE Add("IN_FIELD")
      [] r.st = "AFTER_ESCAPED_CRNL" -> InField
      [] r.st = "IN_FIELD" -> InField
      [] r.st = "IN_QUOTED_FIELD" ->
           IF c = "\\" THEN Move("ESCAPE_IN_QUOTED_FIELD")
           ELSE IF c = "\"" THEN Move("QUOTE_IN_QUOTED_FIELD")
           ELSE Add("IN_QUOTED_FIELD")
      [] r.st = "ESCAPE_IN_QUOTED_FIELD" -> Add("IN_QUOTED_FIELD")
      [] r.st = "QUOTE_IN_QUOTED_FIELD" ->
           IF c = "\"" THEN Add("IN_QUOTED_FIELD")
           ELSE IF c = "," THEN Save("START_FIELD")
           ELSE IF IsNewline(c) THEN Save("EAT_CRNL")
           ELSE Add("IN_FIELD")
      [] r.st = "EAT_CRNL" ->
           IF IsNewline(c) THEN r ELSE [r EXCEPT !.ok = FALSE]

\* the reader after the characters s[lo..hi], taken in order
RECURSIVE CsvRun(_, _, _, _)
CsvRun(s, lo, hi, r) ==
    IF ~r.ok \/ lo > hi THEN r
    ELSE IF lo = hi THEN CsvStep(r, s[lo])
    ELSE LET mid  == (lo + hi) \div 2
             left == CsvRun(s, lo, mid, r)
         IN  IF ~left.ok THEN left ELSE CsvRun(s, mid + 1, hi, left)

\* the end-of-line step and the end of the input
CsvFinish(r) ==
    IF ~r.ok THEN [ok |-> FALSE, fields |-> <<>>]
    ELSE
    CASE r.st \in {"START_RECORD", "EAT_CRNL"} -> [ok |-> TRUE, fields |-> r.fields]
      [] r.st \in {"ESCAPED_CHAR", "ESCAPE_IN_QUOTED_FIELD"} ->
           [ok |-> TRUE, fields |-> Append(r.fields, Append(r.cur, "LF"))]
      [] OTHER -> [ok |-> TRUE, fields |-> Append(r.fields, r.cur)]

CsvFields(payload) ==
    CsvFinish(CsvRun(payload, 1, Len(payload),
                     [st |-> "START_RECORD", cur |-> <<>>, fields |-> <<>>, ok |-> TRUE]))

(***************************************************************************)
(* DiscRipper._parse_makemkv_msg                                           *)
(***************************************************************************)
MsgPrefix == <<"M", "S", "G", ":">>

\* for idx, val in enumerate(params, start=1): text = text.replace(f"%{idx}", val)
RECURSIVE SubstParams(_, _, _)
SubstParams(text, params, idx) ==
    IF idx > Len(params) THEN text
    ELSE SubstParams(Replace(text, <<"%">> \o DecStr(idx), params[idx]), params, idx + 1)

ParseMakemkvMsg(line) ==
    LET payload == IF StartsWith(line, MsgPrefix) THEN Slice(line, 5, Len(line)) ELSE line
        parsed  == CsvFields(payload)
    IN  IF ~parsed.ok THEN line
        ELSE IF Len(parsed.fields) < 4 THEN line
        ELSE SubstParams(parsed.fields[4], Slice(parsed.fields, 5, Len(parsed.fields)), 1)

(***************************************************************************)
(* File names and glob patterns of the temp directory                      *)
(***************************************************************************)
EndsWith(s, p) == Len(s) >= Len(p) /\ SubSeq(s, Len(s) - Len(p) + 1, Len(s)) = p

\* f"{title_id:02d}"
TwoDigits(n) == IF n < 10 THEN <<"0">> \o DecStr(n) ELSE DecStr(n)

DotMkv == <<".", "m", "k", "v">>

\* "_t<NN>.mkv"
TitleSuffix(tid) == <<"_", "t">> \o TwoDigits(tid) \o DotMkv

\* glob "*_t<NN>.mkv"
MatchStarT(name, tid) == EndsWith(name, TitleSuffix(tid))

\* glob "title_t<NN>.mkv"
MatchTitleT(name, tid) == name = <<"t", "i", "t", "l", "e">> \o TitleSuffix(tid)

\* glob "*.mkv"
MatchMkv(name) == EndsWith(name, DotMkv)

\* tmp_patterns = ["*.mkv.tmp", "*.mkv.part", "*.tmp", "*.partial"]
TmpPatterns ==
    << DotMkv \o <<".", "t", "m", "p">>,
       DotMkv \o <<".", "p", "a", "r", "t">>,
       <<".", "t", "m", "p">>,
       <<".", "p", "a", "r", "t", "i", "a", "l">> >>

\* FILENAME_SANITIZE_PATTERN.sub('', name).strip()
SanitizedChars == {"<", ">", ":", "\"", "/", "\\", "|", "?", "*", "CR", "LF", "\t"}

DropSanitized(s) == LET Kept(c) == c \notin SanitizedChars IN SelectSeq(s, Kept)

SafeName(name) == Strip(DropSanitized(name))

(***************************************************************************)
(* Inputs of a run                                                         *)
(***************************************************************************)
\* one write of the rip tool to its output file, in bytes
ChunkBytes == 655360

\* number of chunks after which the tool stops growing its file
MaxChunks == 2

\* iterations of the read loop modelled in one run
MaxIter == 3

\* the clock runs from StartTime to MaxTime (seconds)
StartTime == 2

MaxTime == 3

\* exit codes of the rip tool
ExitCodes == {0, 1}

NameAB == <<"A", ":", "B">>

\* disc_info as scan_disc returns it (None is modelled as the empty sequence)
DiscInfos ==
    { << [id |-> 0, name |-> NameAB, size |-> 2 * ChunkBytes, duration |-> 0],
         [id |-> 1, name |-> NameAB, size |-> 0, duration |-> 1] >>,
      << [id |-> 0, name |-> <<>>, size |-> 0, duration |-> 1],
         [id |-> 1, name |-> NameAB, size |-> 2 * ChunkBytes, duration |-> 0] >>,
      << >> }

FileAB(tid) == <<"A", "B">> \o TitleSuffix(tid)

FileTitle(tid) == <<"t", "i", "t", "l", "e">> \o TitleSuffix(tid)

FileVideo == <<"v", "i", "d", "e", "o">> \o DotMkv

FileTmp == <<"r", "i", "p", ".", "t", "m", "p">>

\* names the rip tool may give the file it writes for a title
ToolNames(tid) == {FileAB(tid), FileTitle(tid), FileVideo, FileTmp}

\* the names considered in runs of several titles
RunNames(tid) == {FileAB(tid), FileVideo}

\* what the temp directory may hold when the run starts (mtime before the run)
InitialDirs ==
    { << >>,
      (FileVideo :> [mtime |-> 0, size |-> ChunkBytes]),
      (FileAB(0) :> [mtime |-> 0, size |-> ChunkBytes]),
      (FileAB(0) :> [mtime |-> 0, size |-> ChunkBytes])
         @@ (FileVideo :> [mtime |-> 1, size |-> MaxChunks * ChunkBytes]) }

Quote == "\""

PRGV(digits) == <<"P", "R", "G", "V", ":">> \o digits \o <<"LF">>

PRGC(rest) == <<"P", "R", "G", "C", ":">> \o rest \o <<"LF">>

SavingCaption ==
    <<"5", "0", "1", "8", ",", "0", ",", Quote, "S", "a", "v", "i", "n", "g", Quote>>

OtherCaption ==
    <<"5", "0", "1", "7", ",", "0", ",", Quote, "S", "c", "a", "n", Quote>>

\* lines the rip tool may write during a job (each ends with its line feed)
ToolLines ==
    { PRGV(<<"5", "0">>),
      PRGV(<<"2", "0">>),
      PRGC(SavingCaption),
      <<"T", "I", "N", "F", "O", ":", "0", "LF">>,
      <<"h", "i", "LF">> }

\* the lines considered in runs of several titles
RunLines == { PRGV(<<"5", "0">>), <<"h", "i", "LF">> }

\* the lines considered in the study of the read loop
LoopLines == RunLines \cup { PRGV(<<"1", "0", "0">>), PRGC(SavingCaption) }

(***************************************************************************)
(* State                                                                   *)
(***************************************************************************)
VARIABLES
    rich,             \* RICH_AVAILABLE
    disc_info,        \* argument of rip_titles
    title_ids,        \* argument of rip_titles
    pc,               \* position of rip_titles: "next", "spawn", "loop", "readline", "done",
                      \* "cancelled"; of process_disc after it: "encode", "finished"
    ti,               \* index in title_ids of the title being ripped
    status,           \* per title: Pending, Running, Succeeded, Failed, Cancelled
    report,           \* per title: what the logger reported about its outcome
    ripped_files,     \* the list rip_titles returns
    files,            \* temp directory: name -> [mtime, size]
    now,              \* time.time()
    proc,             \* the Popen object: [state, code]
    pipe,             \* lines written by the subprocess and not yet read
    procFile,         \* name of the file the subprocess writes (<<>>: none yet)
    est_title_bytes,  \* 0 stands for None
    expected_file,    \* <<>> stands for None
    rip_start_ts,
    save_start_ts,    \* 0 stands for None
    saving_phase,
    last_pct_logged,
    completed,        \* the task's completed value shown by the progress display
    last_completed,   \* progress._last_completed (0 while the attribute is absent)
    liveActive,       \* Live displays started and not stopped
    write_log_bound,  \* the local name write_log has been bound (line 784 reached)
    mkv_candidate,    \* mkv_candidates[0] of the last size probe (<<>>: no candidate)
    iter,             \* iterations of the read loop made in this run
    dec_in,           \* decoder under test: input
    dec_out,          \* decoder under test: output
    free_temp,        \* get_free_space_bytes(self.temp_dir)
    space_warned,     \* the space warning was logged for the current title
    is_tv_series,     \* argument of process_disc
    eidx,             \* encode loop: index of the next ripped file (0: loop not entered)
    final_files,      \* the list process_disc returns
    output_dir,       \* names of the files in self.output_dir
    streams,          \* file_info['streams'] of the last probe
    include_english_subtitles,
    cmd,              \* the last encode command built (<<>>: none)
    stdout,           \* proc.stdout: "none", "open" (a write end is open, no unread
                      \* unterminated text), "partial" (unread text without its line
                      \* terminator), "closed" (end of file after the unread lines)
    undeleted,        \* files of the cleanup before the spawn whose unlink() failed
    approx_logged,    \* the "(approx.)" estimate entry was written for the current job
    logged_pct,       \* percent of the running job's last "Ripping title" entry (-1: none
                      \* yet, or no job in its read loop)
    log_emitted,      \* the last iteration of the running job's read loop wrote a
                      \* "Ripping title" entry
    finish_order      \* what lines 943-973 did for the last exit collected, in order

jobVars == <<est_title_bytes, expected_file, rip_start_ts, save_start_ts, saving_phase,
             last_pct_logged, completed, last_completed, mkv_candidate, iter>>

procVars == <<proc, pipe, procFile>>

runVars == <<rich, disc_info, title_ids, pc, ti, status, report, ripped_files, files, now,
             liveActive, write_log_bound>>

decVars == <<dec_in, dec_out>>

spaceVars == <<free_temp, space_warned>>

encVars == <<is_tv_series, eidx, final_files, output_dir, streams,
             include_english_subtitles, cmd>>

osVars == <<stdout, undeleted>>

logVars == <<approx_logged, logged_pct, log_emitted, finish_order>>

vars == <<runVars, procVars, jobVars, decVars, spaceVars, encVars, osVars, logVars>>

\* value of "completed" when no progress display exists (progress_bar is None)
NoDisplay == -1

NoReport == [kind |-> "none", code |-> 0]

NoSink == [via |-> "none", text |-> <<>>]

NoProc == [state |-> "none", code |-> 0]

NTitles == Len(title_ids)

title_id == title_ids[ti]

progress_bar == rich

Terminal == {"Succeeded", "Failed", "Cancelled"}

(***************************************************************************)
(* Directory queries                                                       *)
(***************************************************************************)
Names(dir) == DOMAIN dir

\* the files of S with the largest mtime
Newest(dir, S) == {n \in S : \A m \in S : dir[m].mtime <= dir[n].mtime}

\* the t of disc_info whose id is title_id (lines 655 and 775); <<>> if none
TitleInfo(info, tid) ==
    LET hits == {i \in 1..Len(info) : info[i].id = tid}
    IN  IF hits = {} THEN <<>>
        ELSE <<info[CHOOSE i \in hits : \A j \in hits : i <= j]>>

\* lines 650-665: est_title_bytes from the reported size
ReportedSize(info, tid) ==
    LET t == TitleInfo(info, tid)
    IN  IF t # <<>> /\ t[1].size # 0 THEN t[1].size ELSE 0

\* lines 658-663: expected_file
ExpectedFile(info, tid) ==
    LET t    == TitleInfo(info, tid)
        safe == IF t = <<>> THEN <<>> ELSE SafeName(t[1].name)
    IN  IF safe # <<>> THEN safe \o TitleSuffix(tid) ELSE <<>>

\* lines 773-778: int(dur * 2.5 * 1024 * 1024); 0 when not derived
ApproxSize(info, tid) ==
    LET t == TitleInfo(info, tid)
    IN  IF t # <<>> /\ t[1].duration > 0 THEN (t[1].duration * 5 * 1024 * 1024) \div 2 ELSE 0

\* a variant of StaleFiles with the second pattern only
StaleFilesTitleOnly(dir, tid) == {n \in Names(dir) : MatchTitleT(n, tid)}

\* lines 736-741: the files the start-of-job cleanup tries to delete
\* a variant of StaleFiles that takes the files of every title
StaleFilesAnyTitle(dir, tid) ==
    {n \in Names(dir) : \E t \in 0..tid + 1 : MatchStarT(n, t) \/ MatchTitleT(n, t)}

StaleFiles(dir, tid) == {n \in Names(dir) : MatchStarT(n, tid) \/ MatchTitleT(n, tid)}

\* dir without the names in S
Without(dir, S) == [n \in Names(dir) \ S |-> dir[n]]

(***************************************************************************)
(* Protocol decoder: the line dispatch of the read loop (lines 808-870)    *)
(***************************************************************************)
\* str(n) for any integer
IntStr(n) == IF n < 0 THEN <<"-">> \o DecStr(0 - n) ELSE DecStr(n)

\* re.search(r'"([^"]+)"', line): the group of the leftmost match, <<>> if none
CaptionMatch(line) ==
    LET quotes == {i \in 1..Len(line) : line[i] = Quote}
        NextQuote(i) == {j \in quotes : j > i /\ \A k \in quotes : k > i => j <= k}
        opens == {i \in quotes : \E j \in NextQuote(i) : j > i + 1}
    IN  IF opens = {} THEN <<>>
        ELSE LET i == CHOOSE x \in opens : \A y \in opens : x <= y
                 j == CHOOSE x \in NextQuote(i) : TRUE
             IN  SubSeq(line, i + 1, j - 1)

SavingWord == <<"S", "a", "v", "i", "n", "g">>

\* robot_prefixes (line 864)
RobotPrefixes ==
    { <<"P", "R", "G", "T", ":">>, <<"D", "R", "V", ":">>,
      <<"T", "C", "O", "U", "N", "T", ":">>, <<"C", "I", "N", "F", "O", ":">>,
      <<"S", "I", "N", "F", "O", ":">>, <<"T", "I", "N", "F", "O", ":">>,
      <<"S", "T", "R", "A", "C", "K", ":">>, <<"A", "T", "R", "A", "C", "K", ":">>,
      <<"V", "T", "R", "A", "C", "K", ":">> }

IsRobotLine(line) == \E p \in RobotPrefixes : StartsWith(line, p)

\* lines 812-824: [ok, pct, pct_int]; ok = FALSE when int() raises; pct is
\* the float pct in thousandths of a percent
PrgvValue(line) ==
    LET p == ParseInt(AfterColon(line))
    IN  IF p.ok THEN [ok |-> TRUE, pct |-> NormalizeMilli(p.val), pct_int |-> PctInt(p.val)]
        ELSE [ok |-> FALSE, pct |-> 0, pct_int |-> 0]

\* line 867: "if live:" -- the name live is bound only when Rich was imported
LiveIsBound(hasRich) == hasRich

\* The part of the job's state a loop iteration reads and writes; pct is
\* <<>> until a PRGV value is decoded, then <<the float pct in thousandths>>.
JobState ==
    [ saving_phase |-> saving_phase, save_start_ts |-> save_start_ts,
      last_pct_logged |-> last_pct_logged, completed |-> completed,
      last_completed |-> last_completed, sink |-> NoSink, raised |-> FALSE,
      pct |-> <<>> ]

\* lines 808-870 for one line read; js.raised: an exception left the loop
Dispatch(raw, js, hasRich, t) ==
    LET line == Strip(raw) IN
    IF StartsWith(line, <<"P", "R", "G", "V", ":">>) THEN
        LET v == PrgvValue(line) IN
        IF ~v.ok THEN [js EXCEPT !.sink = [via |-> "debug", text |-> line]]
        ELSE [js EXCEPT
                !.pct = <<v.pct>>,
                !.completed = IF hasRich THEN v.pct_int ELSE @,
                !.last_pct_logged = v.pct_int,
                !.sink = IF v.pct_int # js.last_pct_logged
                         THEN [via |-> "progress", text |-> IntStr(v.pct_int)]
                         ELSE NoSink]
    ELSE IF StartsWith(line, MsgPrefix) THEN
        [js EXCEPT !.sink = [via |-> "log", text |-> ParseMakemkvMsg(line)]]
    ELSE IF StartsWith(line, <<"P", "R", "G", "C", ":">>) THEN
        LET caption == CaptionMatch(line) IN
        IF caption = <<>> THEN js
        ELSE IF Contains(caption, SavingWord)
             THEN [js EXCEPT !.sink = [via |-> "log", text |-> caption],
                             !.saving_phase = TRUE, !.save_start_ts = t]
             ELSE [js EXCEPT !.sink = [via |-> "log", text |-> caption]]
    ELSE IF IsRobotLine(line) THEN js
    ELSE IF LiveIsBound(hasRich) THEN [js EXCEPT !.sink = [via |-> "print", text |-> line]]
    ELSE [js EXCEPT !.raised = TRUE]

(***************************************************************************)
(* Progress estimator: the fallback update (lines 873-941)                 *)
(***************************************************************************)
\* a variant of ProbePicks that takes the newest recent .mkv before it looks
\* for the expected file and the title's patterns
ProbePicksNewestFirst(dir, expected, tid, threshold) ==
    LET byStarT  == {n \in Names(dir) : MatchStarT(n, tid)}
        byTitleT == {n \in Names(dir) : MatchTitleT(n, tid)}
        recent   == {n \in Names(dir) : MatchMkv(n) /\ dir[n].mtime >= threshold - 1}
    IN  IF recent # {} THEN Newest(dir, recent)
        ELSE IF expected # <<>> /\ expected \in Names(dir) THEN {expected}
        ELSE IF byStarT # {} THEN byStarT
        ELSE byTitleT

\* lines 875-894: the files that may be mkv_candidates[0] (globs give no order)
ProbePicks(dir, expected, tid, threshold) ==
    LET byStarT  == {n \in Names(dir) : MatchStarT(n, tid)}
        byTitleT == {n \in Names(dir) : MatchTitleT(n, tid)}
        ByTmp(k) == {n \in Names(dir) : EndsWith(n, TmpPatterns[k])}
        tmpHits  == {k \in 1..Len(TmpPatterns) : ByTmp(k) # {}}
        recent   == {n \in Names(dir) : MatchMkv(n) /\ dir[n].mtime >= threshold - 1}
    IN  IF expected # <<>> /\ expected \in Names(dir) THEN {expected}
        ELSE IF byStarT # {} THEN byStarT
        ELSE IF byTitleT # {} THEN byTitleT
        ELSE IF tmpHits # {} THEN ByTmp(CHOOSE k \in tmpHits : \A j \in tmpHits : k <= j)
        ELSE Newest(dir, recent)

\* line 900-902: int((current_size / est_title_bytes) * 100), capped at 100
PctGuess(size, est) ==
    LET g == (size * 100) \div est IN IF g > 100 THEN 100 ELSE g

\* lines 899-921: a file was found and an estimate exists
SizeUpdate(js, size, est) ==
    LET guess == PctGuess(size, est) IN
    IF js.saving_phase \/ guess > js.last_completed
    THEN [js EXCEPT !.completed = guess, !.last_completed = guess,
                    !.last_pct_logged = guess]
    ELSE js

\* a variant of NoEstimateUpdate that fills the bar
NoEstimateUpdateFull(js) ==
    IF js.last_completed < 100
    THEN [js EXCEPT !.completed = 100, !.last_completed = 100]
    ELSE js

\* lines 922-933: a file was found, no estimate
NoEstimateUpdate(js) ==
    IF js.last_completed < 99
    THEN [js EXCEPT !.completed = 99, !.last_completed = 99]
    ELSE js

\* lines 934-939: no file found
KeepAliveUpdate(js) ==
    IF js.last_completed < 99
    THEN LET v == IF js.last_completed + 1 < 99 THEN js.last_completed + 1 ELSE 99
         IN  [js EXCEPT !.completed = v, !.last_completed = v]
    ELSE js

\* lines 873-941 with mkv_candidates[0] = pick (<<>>: no candidate)
Fallback(js, dir, pick, est, hasRich) ==
    IF ~hasRich \/ js.raised THEN js
    ELSE IF pick # <<>>
         THEN IF est > 0 THEN SizeUpdate(js, dir[pick].size, est)
              ELSE NoEstimateUpdate(js)
         ELSE KeepAliveUpdate(js)

\* the choices of mkv_candidates[0] in the current state
PickChoices(js) ==
    LET picks == ProbePicks(files, expected_file, title_id,
                            IF js.save_start_ts # 0 THEN js.save_start_ts ELSE rip_start_ts)
    IN  IF picks = {} THEN {<<>>} ELSE picks

\* lines 956-964: the files that may be mkv_files[0] after exit code 0
LocatePicks(dir, tid) ==
    LET byStarT  == {n \in Names(dir) : MatchStarT(n, tid)}
        byTitleT == {n \in Names(dir) : MatchTitleT(n, tid)}
        allMkv   == {n \in Names(dir) : MatchMkv(n)}
    IN  IF byStarT # {} THEN byStarT
        ELSE IF byTitleT # {} THEN byTitleT
        ELSE Newest(dir, allMkv)

(***************************************************************************)
(* rip_titles: one title's job                                             *)
(***************************************************************************)
SetJob(js) ==
    /\ saving_phase' = js.saving_phase
    /\ save_start_ts' = js.save_start_ts
    /\ last_pct_logged' = js.last_pct_logged
    /\ completed' = js.completed
    /\ last_completed' = js.last_completed

\* a variant of ExceptionExit that leaves the loop over the titles
ExceptionExitAborts ==
    /\ report' = [report EXCEPT ![ti] = [kind |-> "exception", code |-> 0]]
    /\ status' = [status EXCEPT ![ti] = "Failed"]
    /\ ti' = NTitles + 1
    /\ pc' = "next"

\* except Exception (lines 975-976): the title's job ends with an error logged
ExceptionExit ==
    /\ report' = [report EXCEPT ![ti] = [kind |-> "exception", code |-> 0]]
    /\ status' = [status EXCEPT ![ti] = "Failed"]
    /\ ti' = ti + 1
    /\ pc' = "next"

\* a variant of Shortfall that compares with the estimate itself, without the
\* 5% margin
ShortfallNoMargin(free, est) == est # 0 /\ free < est

\* lines 666-667: free_temp < int(est_title_bytes * 1.05), only with an estimate
Shortfall(free, est) == est # 0 /\ free < (est * 105) \div 100

\* lines 642-748: estimate, space check, expected file, live display, removal
\* of stale files
BeginTitle ==
    /\ pc = "next"
    /\ ti <= NTitles
    /\ est_title_bytes' = ReportedSize(disc_info, title_id)
    /\ expected_file' = ExpectedFile(disc_info, title_id)
    /\ space_warned' = Shortfall(free_temp, ReportedSize(disc_info, title_id))
    /\ completed' = IF rich THEN 0 ELSE NoDisplay
    /\ last_completed' = 0
    /\ liveActive' = IF rich THEN liveActive + 1 ELSE liveActive
    /\ \E kept \in SUBSET StaleFiles(files, title_id) :
          /\ files' = Without(files, StaleFiles(files, title_id) \ kept)
          /\ undeleted' = kept
    /\ status' = [status EXCEPT ![ti] = "Running"]
    /\ approx_logged' = FALSE
    /\ pc' = "spawn"
    /\ UNCHANGED <<rich, disc_info, title_ids, ti, report, ripped_files, now, write_log_bound>>
    /\ UNCHANGED <<rip_start_ts, save_start_ts, saving_phase, last_pct_logged, mkv_candidate,
                   iter>>
    /\ UNCHANGED <<procVars, decVars, free_temp, encVars, stdout>>
    /\ UNCHANGED <<logged_pct, log_emitted, finish_order>>

\* lines 751-797: Popen succeeded
Spawn ==
    /\ pc = "spawn"
    /\ proc' = [state |-> "running", code |-> 0]
    /\ pipe' = <<>>
    /\ procFile' = <<>>
    /\ stdout' = "open"
    /\ undeleted' = {}
    /\ rip_start_ts' = now
    /\ last_pct_logged' = -1
    /\ saving_phase' = FALSE
    /\ save_start_ts' = 0
    /\ LET derived == est_title_bytes = 0 /\ disc_info # <<>>
                          /\ ApproxSize(disc_info, title_id) > 0
       IN  /\ est_title_bytes' = IF derived THEN ApproxSize(disc_info, title_id)
                                  ELSE est_title_bytes
           \* line 782 calls write_log, a local name line 784 binds: on the first
           \* pass the call raises UnboundLocalError, which line 783 swallows
           /\ approx_logged' = (derived /\ write_log_bound)
    /\ write_log_bound' = TRUE
    /\ logged_pct' = -1
    /\ log_emitted' = FALSE
    /\ pc' = "loop"
    /\ UNCHANGED <<rich, disc_info, title_ids, ti, status, report, ripped_files, files, now, liveActive>>
    /\ UNCHANGED <<expected_file, completed, last_completed, mkv_candidate, iter>>
    /\ UNCHANGED <<decVars, spaceVars, encVars, finish_order>>

\* line 751: Popen raised (the tool cannot be started)
SpawnFails ==
    /\ pc = "spawn"
    /\ ExceptionExit
    /\ UNCHANGED <<rich, disc_info, title_ids, ripped_files, files, now, liveActive, write_log_bound>>
    /\ UNCHANGED <<procVars, jobVars, decVars, spaceVars, logVars, encVars, osVars>>

\* lines 800-941: a line was ready; it is dispatched, then the fallback runs
ReadLine ==
    /\ pc = "loop"
    /\ pipe # <<>>
    /\ iter < MaxIter
    /\ LET js1 == Dispatch(Head(pipe), JobState, rich, now) IN
       /\ log_emitted' = (js1.sink.via = "progress")
       /\ logged_pct' = IF js1.sink.via = "progress" THEN js1.last_pct_logged
                        ELSE IF js1.raised THEN -1
                        ELSE logged_pct
       /\ \E pick \in PickChoices(js1) :
            LET js2 == Fallback(js1, files, pick, est_title_bytes, rich) IN
            /\ SetJob(js2)
            /\ mkv_candidate' = IF progress_bar THEN pick ELSE mkv_candidate
            /\ IF js2.raised
               THEN ExceptionExit
               ELSE /\ pc' = "loop"
                    /\ UNCHANGED <<ti, status, report>>
    /\ pipe' = Tail(pipe)
    /\ iter' = iter + 1
    /\ UNCHANGED <<rich, disc_info, title_ids, ripped_files, files, now, liveActive, write_log_bound>>
    /\ UNCHANGED <<proc, procFile, est_title_bytes, expected_file, rip_start_ts>>
    /\ UNCHANGED <<decVars, spaceVars, encVars, osVars, approx_logged, finish_order>>

\* lines 800-801, 872-941: nothing was ready within 0.25 s; the fallback runs
PollTimeout ==
    /\ pc = "loop"
    /\ pipe = <<>>
    /\ stdout = "open"
    /\ iter < MaxIter
    /\ \E pick \in PickChoices(JobState) :
          /\ SetJob(Fallback(JobState, files, pick, est_title_bytes, rich))
          /\ mkv_candidate' = IF progress_bar THEN pick ELSE mkv_candidate
    /\ iter' = iter + 1
    /\ log_emitted' = FALSE
    /\ UNCHANGED <<runVars, procVars>>
    /\ UNCHANGED <<est_title_bytes, expected_file, rip_start_ts>>
    /\ UNCHANGED <<decVars, spaceVars, encVars, osVars, approx_logged, logged_pct, finish_order>>

\* a variant of ExitOutcome that looks for the output file before it looks
\* at the exit code
ExitOutcomeFileFirst(code, located) ==
    IF located # {} THEN "ok"
    ELSE IF code = 0 THEN "notfound"
    ELSE "exitcode"

\* lines 956-973: what is reported for return_code and the files located
ExitOutcome(code, located) ==
    IF code = 0
    THEN IF located # {} THEN "ok" ELSE "notfound"
    ELSE "exitcode"

\* a variant of ForcedCompleted that leaves the display as it is
ForcedCompletedKept(hasBar, shown) == shown

\* lines 944-945: progress.update(task_id, completed=100) when a display exists
ForcedCompleted(hasBar, shown) == IF hasBar THEN 100 ELSE shown

\* a variant of FinishEffects that reports the outcome before it touches the
\* display
FinishEffectsLogFirst(hasBar, outcome) ==
    <<outcome>> \o (IF hasBar THEN <<"completed=100", "live.stop">> ELSE <<>>)

\* lines 944-973 in the order of their statements: progress.update(task_id,
\* completed=100) and live.stop() when a display exists, then the entry of
\* the logger for the outcome
FinishEffects(hasBar, outcome) ==
    (IF hasBar THEN <<"completed=100", "live.stop">> ELSE <<>>) \o <<outcome>>

\* lines 802-805 and 943-973: end of file with the subprocess gone; the exit
\* code is collected and the outcome of the title is decided
FinishTitle ==
    /\ pc = "loop"
    /\ pipe = <<>>
    /\ stdout = "closed"
    /\ proc.state = "exited"
    /\ proc' = [proc EXCEPT !.state = "reaped"]
    /\ completed' = ForcedCompleted(progress_bar, completed)
    /\ liveActive' = IF progress_bar THEN liveActive - 1 ELSE liveActive
    /\ LET located == LocatePicks(files, title_id)
           outcome == ExitOutcome(proc.code, located)
       IN  IF outcome = "ok"
           THEN \E f \in located :
                   /\ ripped_files' = Append(ripped_files, f)
                   /\ report' = [report EXCEPT ![ti] = [kind |-> "ok", code |-> 0]]
                   /\ status' = [status EXCEPT ![ti] = "Succeeded"]
           ELSE /\ report' = [report EXCEPT ![ti] =
                                 [kind |-> outcome,
                                  code |-> IF outcome = "exitcode" THEN proc.code ELSE 0]]
                /\ status' = [status EXCEPT ![ti] = "Failed"]
                /\ UNCHANGED ripped_files
    /\ finish_order' = FinishEffects(progress_bar,
                                     ExitOutcome(proc.code, LocatePicks(files, title_id)))
    /\ ti' = ti + 1
    /\ pc' = "next"
    /\ UNCHANGED <<rich, disc_info, title_ids, files, now, write_log_bound>>
    /\ UNCHANGED <<pipe, procFile>>
    /\ UNCHANGED <<est_title_bytes, expected_file, rip_start_ts, save_start_ts, saving_phase,
                   last_pct_logged, last_completed, mkv_candidate, iter>>
    /\ logged_pct' = -1
    /\ log_emitted' = FALSE
    /\ UNCHANGED <<decVars, spaceVars, encVars, osVars, approx_logged>>

\* line 978: return ripped_files
Return ==
    /\ pc = "next"
    /\ ti > NTitles
    /\ pc' = "done"
    /\ UNCHANGED <<rich, disc_info, title_ids, ti, status, report, ripped_files, files, now,
                   liveActive, write_log_bound>>
    /\ UNCHANGED <<procVars, jobVars, decVars, spaceVars, logVars, encVars, osVars>>

\* lines 1437-1445: KeyboardInterrupt is not an Exception: it leaves rip_titles
\* and process_disc, is logged as a cancellation and the program exits with
\* status 130.  No statement of the program terminates or waits for proc; the
\* subprocess ends only if the signal was sent to it too (groupSignal).
Interrupt ==
    /\ pc \in {"next", "spawn", "loop"}
    /\ pc' = "cancelled"
    /\ status' = [i \in 1..NTitles |-> IF status[i] = "Running" THEN "Cancelled" ELSE status[i]]
    /\ \E groupSignal \in BOOLEAN :
          IF groupSignal /\ proc.state = "running"
          THEN proc' = [state |-> "exited", code |-> 130] /\ stdout' = "closed"
          ELSE UNCHANGED <<proc, stdout>>
    /\ UNCHANGED <<rich, disc_info, title_ids, ti, report, ripped_files, files, now,
                   liveActive, write_log_bound>>
    /\ UNCHANGED <<pipe, procFile>>
    /\ UNCHANGED <<jobVars, decVars, spaceVars, logVars, encVars, undeleted>>

(***************************************************************************)
(* The environment: the rip tool and the clock                             *)
(***************************************************************************)
\* the subprocess writes one line to its stdout (it is modelled as writing
\* its next line once the previous one was read)
ToolWritesLine(lines) ==
    /\ proc.state = "running"
    /\ pc = "loop"
    /\ pipe = <<>>
    /\ stdout = "open"
    /\ iter < MaxIter
    /\ \E line \in lines : pipe' = Append(pipe, line)
    /\ UNCHANGED <<runVars, proc, procFile, jobVars, decVars, spaceVars, logVars, encVars, osVars>>

\* the subprocess creates its output file or appends a chunk to it
ToolWritesFile(names) ==
    /\ proc.state = "running"
    /\ pc = "loop"
    /\ IF procFile = <<>>
       THEN \E n \in names :
               /\ procFile' = n
               /\ files' = (n :> [mtime |-> now, size |-> ChunkBytes]) @@ files
       ELSE /\ procFile \in Names(files)
            /\ files[procFile].size < MaxChunks * ChunkBytes
            /\ files' = [files EXCEPT ![procFile] =
                           [mtime |-> now, size |-> @.size + ChunkBytes]]
            /\ UNCHANGED procFile
    /\ UNCHANGED <<rich, disc_info, title_ids, pc, ti, status, report, ripped_files, now,
                   liveActive, write_log_bound>>
    /\ UNCHANGED <<proc, pipe, jobVars, decVars, spaceVars, logVars, encVars, osVars>>

\* the subprocess exits
ToolExits ==
    /\ proc.state = "running"
    /\ pc = "loop"
    /\ stdout = "open"
    /\ \E code \in ExitCodes : proc' = [state |-> "exited", code |-> code]
    /\ stdout' = "closed"
    /\ UNCHANGED <<runVars, pipe, procFile, jobVars, decVars, spaceVars, logVars, encVars, undeleted>>

\* the subprocess writes text without a line terminator
ToolWritesPartial ==
    /\ proc.state = "running"
    /\ pc = "loop"
    /\ pipe = <<>>
    /\ stdout = "open"
    /\ iter < MaxIter
    /\ stdout' = "partial"
    /\ UNCHANGED <<runVars, proc, pipe, procFile, jobVars, decVars, spaceVars, logVars, encVars, undeleted>>

\* lines 800-802: select() reports proc.stdout readable because of the
\* unterminated text, and readline() waits for the rest of the line
ReadLineBlocks ==
    /\ pc = "loop"
    /\ pipe = <<>>
    /\ stdout = "partial"
    /\ pc' = "readline"
    /\ UNCHANGED <<rich, disc_info, title_ids, ti, status, report, ripped_files, files, now,
                   liveActive, write_log_bound>>
    /\ UNCHANGED <<procVars, jobVars, decVars, spaceVars, logVars, encVars, osVars>>

\* the subprocess writes the rest of the line; a waiting readline() returns
ToolCompletesLine(lines) ==
    /\ proc.state = "running"
    /\ pc \in {"loop", "readline"}
    /\ stdout = "partial"
    /\ \E line \in lines : pipe' = <<line>>
    /\ stdout' = "open"
    /\ pc' = "loop"
    /\ UNCHANGED <<rich, disc_info, title_ids, ti, status, report, ripped_files, files, now,
                   liveActive, write_log_bound>>
    /\ UNCHANGED <<proc, procFile, jobVars, decVars, spaceVars, logVars, encVars, undeleted>>

\* the subprocess exits while a process it started still holds the write
\* end of its stdout: no end of file yet
ToolExitsHeld ==
    /\ proc.state = "running"
    /\ pc = "loop"
    /\ stdout = "open"
    /\ \E code \in ExitCodes : proc' = [state |-> "exited", code |-> code]
    /\ UNCHANGED <<runVars, pipe, procFile, jobVars, decVars, spaceVars, logVars, encVars, osVars>>

\* the last holder of the write end closes it
HolderCloses ==
    /\ proc.state = "exited"
    /\ pc = "loop"
    /\ stdout = "open"
    /\ stdout' = "closed"
    /\ UNCHANGED <<runVars, procVars, jobVars, decVars, spaceVars, logVars, encVars, undeleted>>

\* time passes between two titles
Tick ==
    /\ pc = "next"
    /\ 1 < ti /\ ti <= NTitles
    /\ now < MaxTime
    /\ now' = now + 1
    /\ UNCHANGED <<rich, disc_info, title_ids, pc, ti, status, report, ripped_files, files,
                   liveActive, write_log_bound>>
    /\ UNCHANGED <<procVars, jobVars, decVars, spaceVars, logVars, encVars, osVars>>

(***************************************************************************)
(* The decoder on its own: one line is dispatched from the state of a job  *)
(* that has just entered its read loop.                                    *)
(***************************************************************************)
\* largest number of MSG parameters
MaxParams == 10

\* raw values go up to RawSteps * RawStride, and down to -RawSmall
RawSteps == 82

RawStride == 2500

RawSmall == 120

RawValues ==
    (0 - RawSmall .. RawSmall)
      \cup {k * RawStride : k \in 0..RawSteps}
      \cup {9999, 10001, 50000, 99999, 100000, 100001}

Letters == <<"a", "b", "c", "d", "e", "f", "g", "h", "i", "j", "k", "l", "m", "n">>

\* parameter lists: the k-th parameter is the k-th letter, except that one
\* parameter may itself be a placeholder text or empty
SpecialParams == {<<"%", "2">>, <<"%", "1">>, <<>>}

ParamLists ==
    UNION {
      {[k \in 1..n |-> <<Letters[k]>>]}
        \cup {[k \in 1..n |-> IF k = j THEN sp ELSE <<Letters[k]>>] :
                 j \in 1..n, sp \in SpecialParams}
      : n \in 0..MaxParams }

Templates ==
    { <<"S", "a", "v", "i", "n", "g", " ", "t", "i", "t", "l", "e", " ", "%", "1", " ",
        "o", "f", " ", "%", "2">>,
      <<"x", " ", "%", "1", "0", " ", "y">>,
      <<"%", "2", ",", "%", "1">>,
      <<"%", "%", "1", "2">>,
      <<"1", "0", "0", "%">> }

Quoted(text) == <<Quote>> \o text \o <<Quote>>

RECURSIVE JoinQuoted(_, _)
JoinQuoted(params, k) ==
    IF k > Len(params) THEN <<>>
    ELSE <<",">> \o Quoted(params[k]) \o JoinQuoted(params, k + 1)

\* MSG:<code>,<flags>,<count>,"<template>","<param 1>",...
MsgLine(template, params) ==
    MsgPrefix \o <<"3", "0", "2", "0", ",", "0", ",", "0", ",">> \o Quoted(template)
      \o JoinQuoted(params, 1) \o <<"LF">>

\* lines that are malformed, silent or unrecognized
OddLines ==
    { PRGV(<<"1", ",", "2", ",", "3">>),
      PRGV(<<"x">>),
      PRGV(<<>>),
      PRGV(<<" ", "+", "7", "_", "5">>),
      PRGC(SavingCaption),
      PRGC(OtherCaption),
      PRGC(<<"5", ",", "0">>),
      PRGC(<<Quote, Quote>>),
      MsgPrefix \o <<"1", ",", "0", "LF">>,
      MsgPrefix \o <<"1", ",", "0", ",", "0", ",", "a", "CR", "b", ",", "c", "LF">>,
      MsgPrefix \o <<"1", ",", "0", ",", "0", ",", Quote, "a", ",", "%", "1", "LF">>,
      <<"T", "I", "N", "F", "O", ":", "0", "LF">>,
      <<"D", "R", "V", ":", "0", "LF">>,
      <<"h", "i", "LF">>,
      <<"LF">> }

\* an input of the decoder: <<kind, raw value, MSG template, MSG parameters, line>>
DecInput(k, r, t, ps, l) == <<k, r, t, ps, l>>

NoInput == DecInput("none", 0, <<>>, <<>>, <<>>)

\* the read loop dispatches `input.line` (lines 808-870)
Decode(input) ==
    /\ pc = "loop"
    /\ dec_in[1] = "none"
    /\ dec_in' = input
    /\ dec_out' = Dispatch(input[5], JobState, rich, now)
    /\ UNCHANGED <<runVars, procVars, jobVars, spaceVars, logVars, encVars, osVars>>

DecodePrgv == \E r \in RawValues : Decode(DecInput("prgv", r, <<>>, <<>>, PRGV(IntStr(r))))

DecodeMsg ==
    \E t \in Templates, ps \in ParamLists :
       Decode(DecInput("msg", 0, t, ps, MsgLine(t, ps)))

DecodeOther == \E l \in OddLines : Decode(DecInput("other", 0, <<>>, <<>>, l))

(***************************************************************************)
(* encode_file: stream selection (lines 1044-1094).  A stream of the probe *)
(* is <<codec_type, width, height, channels, language>>; a missing key has *)
(* the default the code gives it (0, or the empty language); the index of  *)
(* a stream is its position in the probe, counted from 0.  The command is  *)
(* the sequence of its option/value pairs after "ffmpeg -i <input>":       *)
(* <<"-map", index>>, <<"-c:v", 0>>, <<"-c:a", n>>, <<"-c:s", n>> (each    *)
(* with the value "copy") and the closing <<"-y", 0>>.                     *)
(***************************************************************************)
CodecType(s) == s[1]

Resolution(s) == s[2] * s[3]

Channels(s) == s[4]

Language(s) == s[5]

StreamIndex(pos) == pos - 1

\* [s for s in streams if s.get('codec_type') == kind], as positions of strs
Positions(strs, kind) ==
    LET all == [i \in 1..Len(strs) |-> i]
        Keep(i) == CodecType(strs[i]) = kind
    IN  SelectSeq(all, Keep)

\* a variant of VideoMaps that takes the first video stream of the probe
VideoMapsFirst(strs) ==
    LET vids == Positions(strs, "video")
    IN  IF vids = <<>> THEN <<>>
        ELSE << <<"-map", StreamIndex(vids[1])>>, <<"-c:v", 0>> >>

\* a variant of VideoMaps that takes the last of the largest video streams
VideoMapsLastOfLargest(strs) ==
    LET vids == Positions(strs, "video")
        best == {k \in 1..Len(vids) :
                   /\ \A j \in 1..Len(vids) :
                         Resolution(strs[vids[j]]) <= Resolution(strs[vids[k]])
                   /\ \A j \in (k + 1)..Len(vids) :
                         Resolution(strs[vids[j]]) < Resolution(strs[vids[k]])}
    IN  IF vids = <<>> THEN <<>>
        ELSE << <<"-map", StreamIndex(vids[CHOOSE k \in best : TRUE])>>, <<"-c:v", 0>> >>

\* lines 1050-1058: video_streams sorted by resolution, reverse=True (stable)
VideoMaps(strs) ==
    LET vids == Positions(strs, "video")
        best == {k \in 1..Len(vids) :
                   /\ \A j \in 1..Len(vids) :
                         Resolution(strs[vids[j]]) <= Resolution(strs[vids[k]])
                   /\ \A j \in 1..(k - 1) :
                         Resolution(strs[vids[j]]) < Resolution(strs[vids[k]])}
    IN  IF vids = <<>> THEN <<>>
        ELSE << <<"-map", StreamIndex(vids[CHOOSE k \in best : TRUE])>>, <<"-c:v", 0>> >>

\* line 1069: language in ('eng', 'en', '') or not language
AudioLanguageOk(language) == language \in {"eng", "en", ""} \/ language = ""

\* a variant of AudioChannelsOk that takes every mix from stereo up
AudioChannelsOkStereoUp(channels) == channels >= 2

\* line 1073: channels == 2 or channels >= 6
AudioChannelsOk(channels) == channels = 2 \/ channels >= 6

\* a variant of SubtitleLanguageOk that treats subtitles as audio is treated
SubtitleLanguageOkLikeAudio(language) == language \in {"eng", "en", ""}

\* line 1087: language in ('eng', 'en')
SubtitleLanguageOk(language) == language \in {"eng", "en"}

\* a variant of MapPairs that appends the selected positions last first
MapPairsReversed(sel, k, codecOption) ==
    [i \in 1..(2 * (Len(sel) + 1 - k)) |->
        IF i % 2 = 1 THEN <<"-map", StreamIndex(sel[Len(sel) - (i \div 2)])>>
        ELSE <<codecOption, k - 2 + (i \div 2)>>]

\* a variant of MapPairs that numbers each codec option with the index of
\* the stream it copies
MapPairsStreamNumbered(sel, k, codecOption) ==
    [i \in 1..(2 * (Len(sel) + 1 - k)) |->
        IF i % 2 = 1 THEN <<"-map", StreamIndex(sel[k + (i \div 2)])>>
        ELSE <<codecOption, StreamIndex(sel[k - 1 + (i \div 2)])>>]

\* the pairs appended for the selected positions sel[k..], numbered from k - 1
RECURSIVE MapPairs(_, _, _)
MapPairs(sel, k, codecOption) ==
    IF k > Len(sel) THEN <<>>
    ELSE << <<"-map", StreamIndex(sel[k])>>, <<codecOption, k - 1>> >>
           \o MapPairs(sel, k + 1, codecOption)

\* lines 1061-1076
AudioMaps(strs) ==
    LET Wanted(i) == /\ AudioLanguageOk(Language(strs[i]))
                     /\ AudioChannelsOk(Channels(strs[i]))
    IN  MapPairs(SelectSeq(Positions(strs, "audio"), Wanted), 1, "-c:a")

\* lines 1079-1091
SubtitleMaps(strs, withSubtitles) ==
    LET Wanted(i) == SubtitleLanguageOk(Language(strs[i]))
    IN  IF withSubtitles
        THEN MapPairs(SelectSeq(Positions(strs, "subtitle"), Wanted), 1, "-c:s")
        ELSE <<>>

\* lines 1047-1094
EncodeCommand(strs, withSubtitles) ==
    VideoMaps(strs) \o AudioMaps(strs) \o SubtitleMaps(strs, withSubtitles) \o << <<"-y", 0>> >>

(***************************************************************************)
(* process_disc after rip_titles returned: the encode loop                 *)
(***************************************************************************)
\* largest channel count of a probed audio track
MaxChannels == 7

\* length of the probed lists that are enumerated in full
MaxTracks == 3

VideoStreams == { <<"video", 1920, 1080, 0, "">>, <<"video", 720, 480, 0, "">>,
                  <<"video", 0, 0, 0, "">> }

AudioStreams ==
    { <<"audio", 0, 0, ch, lang>> : ch \in 0..MaxChannels, lang \in {"eng", "en", "", "und"} }

SubtitleStreams == { <<"subtitle", 0, 0, 0, lang>> : lang \in {"eng", "en", "", "fra"} }

\* [video 1920x1080, video 720x480, audio eng 2ch, audio eng 4ch,
\*  audio und 6ch, subtitle eng, subtitle fra]
SevenTracks ==
    << <<"video", 1920, 1080, 0, "">>, <<"video", 720, 480, 0, "">>,
       <<"audio", 0, 0, 2, "eng">>, <<"audio", 0, 0, 4, "eng">>,
       <<"audio", 0, 0, 6, "und">>,
       <<"subtitle", 0, 0, 0, "eng">>, <<"subtitle", 0, 0, 0, "fra">> >>

\* a list in which kept and dropped tracks of each kind alternate
MixedTracks ==
    << <<"subtitle", 0, 0, 0, "en">>, <<"audio", 0, 0, 6, "">>,
       <<"video", 720, 480, 0, "">>, <<"audio", 0, 0, 1, "eng">>,
       <<"subtitle", 0, 0, 0, "">>, <<"audio", 0, 0, 2, "en">>,
       <<"video", 1920, 1080, 0, "">>, <<"subtitle", 0, 0, 0, "eng">>,
       <<"video", 1920, 1080, 0, "">> >>

\* the tracks that are combined into lists of up to MaxTracks tracks
CoreStreams ==
    { <<"video", 1920, 1080, 0, "">>, <<"video", 720, 480, 0, "">>,
      <<"audio", 0, 0, 2, "eng">>, <<"audio", 0, 0, 6, "">>,
      <<"subtitle", 0, 0, 0, "eng">>, <<"subtitle", 0, 0, 0, "">> }

\* the probe results considered by the stream selection: every single
\* track, the short lists of core tracks, and the two long lists
StreamLists ==
    {<<s>> : s \in VideoStreams \cup AudioStreams \cup SubtitleStreams}
        \cup UNION {[1..n -> CoreStreams] : n \in 0..MaxTracks}
        \cup {SevenTracks, MixedTracks}

\* the probe results considered in runs of the whole encode loop
EncodeLists == {SevenTracks, << <<"audio", 0, 0, 2, "">> >>}

\* line 1304 / 1306: output_name (season_num = 1)
OutputName(tv, k) ==
    IF tv THEN <<"t", "e", "m", "p", "_", "s", "0", "1", "e">> \o TwoDigits(k) \o DotMkv
    ELSE <<"t", "e", "m", "p", "_", "m", "o", "v", "i", "e">> \o DotMkv

\* rename_file (lines 1195-1213) for the title "AB" without a year
FinalName(tv, k) ==
    IF tv THEN <<"A", "B", " ", "-", " ", "S", "0", "1", "E">> \o TwoDigits(k) \o DotMkv
    ELSE <<"A", "B">> \o DotMkv

\* lines 1276-1299: rip_titles returned; nothing ripped ends process_disc
AfterRip ==
    /\ pc = "done"
    /\ IF ripped_files = <<>>
       THEN pc' = "finished" /\ UNCHANGED eidx
       ELSE pc' = "encode" /\ eidx' = 1
    /\ final_files' = <<>>
    /\ UNCHANGED <<rich, disc_info, title_ids, ti, status, report, ripped_files, files, now,
                   liveActive, write_log_bound>>
    /\ UNCHANGED <<procVars, jobVars, decVars, spaceVars, logVars, osVars>>
    /\ UNCHANGED <<is_tv_series, output_dir, streams, include_english_subtitles, cmd>>

\* a variant of DeletesSource that cleans up whatever the encode returned
DeletesSourceAlways(encoded) == TRUE

\* lines 1311-1326: the ripped file is unlinked in the branch of a successful encode
DeletesSource(encoded) == encoded

\* lines 1300-1328: one iteration of the encode loop, with encode_file
\* (lines 1037-1118) and rename_file (lines 1213-1222).  probe = <<>> stands
\* for analyze_file returning None; a failed ffmpeg run may leave a
\* partial output file behind.
EncodeStep(lists) ==
    /\ pc = "encode"
    /\ eidx <= Len(ripped_files)
    /\ LET ripped_file == ripped_files[eidx]
           output_file == OutputName(is_tv_series, eidx)
           final_name  == FinalName(is_tv_series, eidx)
       IN
       \E probe \in {<<>>} \cup {<<l>> : l \in lists}, ran \in BOOLEAN,
          renamed \in BOOLEAN, unlinked \in BOOLEAN, partial \in BOOLEAN :
          LET probed  == probe # <<>> /\ ripped_file \in Names(files)
              encoded == probed /\ ran
              gone    == IF DeletesSource(encoded) /\ unlinked THEN {ripped_file} ELSE {}
              made    == IF (encoded /\ ~renamed) \/ (probed /\ ~ran /\ partial)
                         THEN (output_file :> [mtime |-> now, size |-> ChunkBytes])
                         ELSE << >>
          IN
          /\ streams' = IF probed THEN probe[1] ELSE streams
          /\ cmd' = IF probed THEN EncodeCommand(probe[1], include_english_subtitles) ELSE cmd
          /\ final_files' =
                IF ~encoded THEN final_files
                ELSE IF renamed THEN Append(final_files, <<"output", final_name>>)
                ELSE Append(final_files, <<"temp", output_file>>)
          /\ output_dir' = IF encoded /\ renamed THEN output_dir \cup {final_name} ELSE output_dir
          /\ files' = made @@ Without(files, gone)
    /\ eidx' = eidx + 1
    /\ UNCHANGED <<rich, disc_info, title_ids, pc, ti, status, report, ripped_files, now,
                   liveActive, write_log_bound>>
    /\ UNCHANGED <<procVars, jobVars, decVars, spaceVars, logVars, osVars>>
    /\ UNCHANGED <<is_tv_series, include_english_subtitles>>

\* line 1334: return final_files
ReturnFinal ==
    /\ pc = "encode"
    /\ eidx > Len(ripped_files)
    /\ pc' = "finished"
    /\ UNCHANGED <<rich, disc_info, title_ids, ti, status, report, ripped_files, files, now,
                   liveActive, write_log_bound>>
    /\ UNCHANGED <<procVars, jobVars, decVars, spaceVars, logVars, encVars, osVars>>

(***************************************************************************)
(* Specifications                                                          *)
(***************************************************************************)
InitRunIn(titleLists, dirs) ==
    /\ rich \in BOOLEAN
    /\ disc_info \in DiscInfos
    /\ title_ids \in titleLists
    /\ pc = "next"
    /\ ti = 1
    /\ status = [i \in 1..NTitles |-> "Pending"]
    /\ report = [i \in 1..NTitles |-> NoReport]
    /\ ripped_files = <<>>
    /\ files \in dirs
    /\ now = StartTime
    /\ proc = NoProc
    /\ pipe = <<>>
    /\ procFile = <<>>
    /\ est_title_bytes = 0
    /\ expected_file = <<>>
    /\ rip_start_ts = 0
    /\ save_start_ts = 0
    /\ saving_phase = FALSE
    /\ last_pct_logged = -1
    /\ completed = NoDisplay
    /\ last_completed = 0
    /\ liveActive = 0
    /\ write_log_bound = FALSE
    /\ mkv_candidate = <<>>
    /\ iter = 0
    /\ dec_in = NoInput
    /\ dec_out = JobState
    /\ space_warned = FALSE
    /\ eidx = 0
    /\ final_files = <<>>
    /\ output_dir = {}
    /\ streams = <<>>
    /\ cmd = <<>>
    /\ stdout = "none"
    /\ undeleted = {}
    /\ approx_logged = FALSE
    /\ logged_pct = -1
    /\ log_emitted = FALSE
    /\ finish_order = <<>>

InitRun(titleLists) == InitRunIn(titleLists, InitialDirs)

\* free space that is no shortfall for any title of the model
FreePlenty == 64 * ChunkBytes

\* the inputs of process_disc that the rip itself does not depend on
RunInputs ==
    /\ free_temp = FreePlenty
    /\ is_tv_series = (NTitles > 1)
    /\ include_english_subtitles = TRUE

Program ==
    \/ BeginTitle
    \/ Spawn
    \/ SpawnFails
    \/ ReadLine
    \/ PollTimeout
    \/ FinishTitle
    \/ Return
    \/ Interrupt

\* a run of rip_titles over two titles
Init == InitRun({<<0, 1>>}) /\ RunInputs

Next ==
    \/ Program
    \/ ToolWritesLine(RunLines)
    \/ ToolWritesFile(RunNames(title_id))
    \/ ToolExits
    \/ Tick

Spec == Init /\ [][Next]_vars

\* the job of a single title, with every kind of line and output file
InitJob == InitRun({<<0>>, <<1>>}) /\ RunInputs

NextJob ==
    \/ Program
    \/ ToolWritesLine(ToolLines)
    \/ ToolWritesFile(ToolNames(title_id))
    \/ ToolExits

SpecJob == InitJob /\ [][NextJob]_vars

\* the decoder alone, in a job that has just been spawned
InitDecode ==
    /\ InitRun({<<0>>})
    /\ RunInputs
    /\ files = << >>

NextDecode ==
    \/ BeginTitle
    \/ Spawn
    \/ DecodePrgv
    \/ DecodeMsg
    \/ DecodeOther

SpecDecode == InitDecode /\ [][NextDecode]_vars

\* the job of title 0 with the subprocess free in how it writes and closes
\* its stdout
InitLoop ==
    /\ InitRun({<<0>>})
    /\ RunInputs
    /\ files = << >>

NextLoop ==
    \/ BeginTitle
    \/ Spawn
    \/ ReadLine
    \/ ReadLineBlocks
    \/ PollTimeout
    \/ FinishTitle
    \/ Return
    \/ ToolWritesLine(LoopLines)
    \/ ToolWritesPartial
    \/ ToolCompletesLine(LoopLines)
    \/ ToolWritesFile({FileAB(title_id)})
    \/ ToolExits
    \/ ToolExitsHeld
    \/ HolderCloses

SpecLoop == InitLoop /\ [][NextLoop]_vars

\* rip_titles runs in one thread that is never starved: each of its steps
\* is taken when it stays possible (weak fairness; for ReadLine it is
\* written with the guard of the action in place of ENABLED).  Nothing is
\* assumed of the subprocess or of the holders of its stdout.
SpecLoopFair ==
    /\ SpecLoop
    /\ WF_vars(BeginTitle) /\ WF_vars(Spawn) /\ WF_vars(ReadLineBlocks)
    /\ WF_vars(PollTimeout) /\ WF_vars(FinishTitle) /\ WF_vars(Return)
    /\ ([]<>~(pc = "loop" /\ pipe # <<>> /\ iter < MaxIter) \/ []<><<ReadLine>>_vars)

\* free space values: none, between the estimate and the estimate with its
\* margin, and plenty
FreeSpaces == {0, 2 * ChunkBytes + 1, FreePlenty}

\* the job of title 0 under every free space value
InitSpace ==
    /\ InitRun({<<0>>})
    /\ free_temp \in FreeSpaces
    /\ is_tv_series = FALSE
    /\ include_english_subtitles = TRUE

NextSpace ==
    \/ Program
    \/ ToolWritesLine(RunLines)
    \/ ToolWritesFile(RunNames(title_id))
    \/ ToolExits

SpecSpace == InitSpace /\ [][NextSpace]_vars

\* process_disc for a series of two titles: the rip without output lines,
\* then the encode loop
InitEncode ==
    /\ InitRun({<<0, 1>>})
    /\ ~rich
    /\ disc_info # << >>
    /\ files = << >>
    /\ free_temp = FreePlenty
    /\ is_tv_series = TRUE
    /\ include_english_subtitles = TRUE

NextEncode ==
    \/ BeginTitle
    \/ Spawn
    \/ FinishTitle
    \/ Return
    \/ ToolWritesFile(RunNames(title_id))
    \/ ToolExits
    \/ AfterRip
    \/ EncodeStep(EncodeLists)
    \/ ReturnFinal

SpecEncode == InitEncode /\ [][NextEncode]_vars

\* temp directories that hold what an interrupted earlier run of the same
\* disc left: the file of title 1, alone or next to other files
CleanupDirs ==
    { (FileAB(1) :> [mtime |-> 0, size |-> ChunkBytes]),
      (FileAB(0) :> [mtime |-> 0, size |-> ChunkBytes])
         @@ (FileAB(1) :> [mtime |-> 1, size |-> ChunkBytes]),
      (FileAB(1) :> [mtime |-> 0, size |-> ChunkBytes])
         @@ (FileVideo :> [mtime |-> 1, size |-> MaxChunks * ChunkBytes]) }

\* rip_titles over two titles in a directory with leftovers of the second
InitCleanup == InitRunIn({<<0, 1>>}, CleanupDirs) /\ RunInputs

NextCleanup ==
    \/ BeginTitle
    \/ Spawn
    \/ FinishTitle
    \/ Return
    \/ ToolWritesFile(RunNames(title_id))
    \/ ToolExits

SpecCleanup == InitCleanup /\ [][NextCleanup]_vars

\* encode_file on the single ripped file of a movie, for every probe result
\* and either value of its parameter include_english_subtitles
InitSelect ==
    /\ InitRun({<<0>>})
    /\ ~rich
    /\ disc_info # << >>
    /\ files = << >>
    /\ free_temp = FreePlenty
    /\ is_tv_series = FALSE
    /\ include_english_subtitles \in BOOLEAN

NextSelect ==
    \/ BeginTitle
    \/ Spawn
    \/ FinishTitle
    \/ Return
    \/ ToolWritesFile({FileAB(title_id)})
    \/ ToolExits
    \/ AfterRip
    \/ EncodeStep(StreamLists)
    \/ ReturnFinal

SpecSelect == InitSelect /\ [][NextSelect]_vars

(***************************************************************************)
(* Properties                                                              *)
(***************************************************************************)
\* line 943: the step in which the job collects the exit code of its subprocess
Reaps == proc.state = "exited" /\ proc'.state = "reaped"

\* lines 800-870: the step in which the read loop reads and dispatches a line
ReadsLine == pc = "loop" /\ pipe # <<>> /\ iter' = iter + 1

\* lines 872-941: a step of the read loop that ends with the fallback update
Probes == pc = "loop" /\ iter' = iter + 1

\* C1: within one title's job the percentage shown on the progress display
\* never decreases: every value written to the display is at least the value
\* written before it, whatever lines, silent polls and size probes occur.
C1_DisplayNeverDecreases ==
    [][(pc = "loop" /\ progress_bar) => completed' >= completed]_vars

\* C2: a cancellation that arrives while a title is Running terminates the rip
\* subprocess, leaves the title Cancelled, is not reported as a rip error, and
\* no file is appended to the ripped list for the cancelled title.
C2_CancelTerminatesSubprocess ==
    \A i \in 1..NTitles :
        status[i] = "Cancelled" =>
            /\ proc.state # "running"
            /\ report[i] = NoReport
            /\ Len(ripped_files) < i

\* C3: a title goes Pending -> Running -> one terminal outcome, which never
\* changes; it becomes Succeeded only in the step that collects exit code 0
\* and appends one located file (the list grows in no other step); a nonzero
\* exit code collected makes the title Failed with that code reported, also
\* when a file matching the title exists.
C3_TitleLifecycle ==
    [][ /\ \A i \in 1..NTitles :
              /\ status'[i] # status[i] =>
                    \/ status[i] = "Pending" /\ status'[i] = "Running"
                    \/ status[i] = "Running" /\ status'[i] \in Terminal
              /\ (status'[i] = "Succeeded" /\ status[i] # "Succeeded") =>
                    /\ i = ti
                    /\ Reaps
                    /\ proc.code = 0
                    /\ \E f \in Names(files) : ripped_files' = Append(ripped_files, f)
              /\ (i = ti /\ Reaps /\ proc.code # 0) =>
                    /\ status'[i] = "Failed"
                    /\ report'[i] = [kind |-> "exitcode", code |-> proc.code]
        /\ ripped_files' # ripped_files =>
              \E i \in 1..NTitles : status[i] = "Running" /\ status'[i] = "Succeeded"
      ]_vars

\* a run in which one title succeeded with the file its subprocess wrote and
\* another failed with its exit code reported although a file carrying its
\* title suffix exists
C3_Witness ==
    \E i, j \in 1..NTitles :
        /\ status[i] = "Succeeded"
        /\ ripped_files = <<FileAB(title_ids[i])>>
        /\ files[FileAB(title_ids[i])].mtime >= StartTime
        /\ status[j] = "Failed"
        /\ report[j] = [kind |-> "exitcode", code |-> 1]
        /\ \E n \in Names(files) : MatchStarT(n, title_ids[j])

\* C4: when the subprocess exits with code 0 and no output file produced by
\* this job can be located, the title is Failed, the missing file is reported
\* and nothing is appended to the ripped list.
C4_NoFileOfThisJobMeansFailed ==
    [][ (Reaps /\ proc.code = 0
           /\ ~(procFile # <<>> /\ procFile \in Names(files) /\ MatchMkv(procFile)))
          => /\ status'[ti] = "Failed"
             /\ report'[ti].kind = "notfound"
             /\ ripped_files' = ripped_files ]_vars

\* the files C5 allows to be attributed: the expected file, else *_t<NN>.mkv,
\* else title_t<NN>.mkv, else the newest *.mkv modified at or after the start
AttributableFiles(dir, expected, tid, start) ==
    LET byStarT  == {n \in Names(dir) : MatchStarT(n, tid)}
        byTitleT == {n \in Names(dir) : MatchTitleT(n, tid)}
        recent   == {n \in Names(dir) : MatchMkv(n) /\ dir[n].mtime >= start}
    IN  IF expected # <<>> /\ expected \in Names(dir) THEN {expected}
        ELSE IF byStarT # {} THEN byStarT
        ELSE IF byTitleT # {} THEN byTitleT
        ELSE Newest(dir, recent)

\* C5: after exit code 0 the file attributed to the title is chosen in the
\* order expected file, *_t<NN>.mkv, title_t<NN>.mkv, newest *.mkv modified at
\* or after the job's start; an older .mkv that does not match the title's
\* patterns is never attributed, and no path appears twice in the ripped list.
C5_AttributionOrder ==
    [][ \A f \in Names(files) :
           ripped_files' = Append(ripped_files, f) =>
              /\ f \in AttributableFiles(files, expected_file, title_id, rip_start_ts)
              /\ \A k \in 1..Len(ripped_files) : ripped_files[k] # f ]_vars

\* the expected file of title tid exists together with a newer .mkv that does
\* not carry the title's suffix
NewerUnrelated(tid) ==
    /\ expected_file # <<>>
    /\ expected_file \in Names(files)
    /\ \E u \in Names(files) :
          /\ MatchMkv(u)
          /\ ~MatchStarT(u, tid)
          /\ files[u].mtime > files[expected_file].mtime

\* no other file of the directory carries the suffix of title tid
OnlyExpected(tid) == \A n \in Names(files) : MatchStarT(n, tid) => n = expected_file

C7_PercentInRange ==
    dec_in[1] = "prgv" =>
        /\ \A k \in 1..Len(dec_out.pct) : dec_out.pct[k] \in 0..100000
        /\ dec_out.last_pct_logged \in 0..100
        /\ progress_bar => dec_out.completed \in 0..100

\* C8: raw value 50000 normalizes to 50 percent, 75 to 75 percent and 100000
\* to 100 percent.
C8_KnownValues ==
    /\ (dec_in[1] = "prgv" /\ dec_in[2] = 50000) => dec_out.pct = <<50000>>
    /\ (dec_in[1] = "prgv" /\ dec_in[2] = 75) => dec_out.pct = <<75000>>
    /\ (dec_in[1] = "prgv" /\ dec_in[2] = 100000) => dec_out.pct = <<100000>>

\* the template with every placeholder %k, 1 <= k <= Len(params), replaced by
\* the k-th parameter, inserted verbatim (the longest such k is taken)
RECURSIVE Substituted(_, _)
Substituted(text, params) ==
    IF text = <<>> THEN <<>>
    ELSE IF Head(text) # "%" THEN <<Head(text)>> \o Substituted(Tail(text), params)
    ELSE LET ks == {k \in 1..Len(params) : StartsWith(Tail(text), DecStr(k))}
         IN  IF ks = {} THEN <<"%">> \o Substituted(Tail(text), params)
             ELSE LET k == CHOOSE x \in ks : \A y \in ks : y <= x
                  IN  params[k]
                        \o Substituted(Slice(text, 2 + Len(DecStr(k)), Len(text)), params)

\* C9: for a MSG record with at least 4 fields the emitted text is the fourth
\* field with every placeholder %k replaced by exactly the k-th parameter,
\* for any number of parameters (10 or more included) and also when a
\* parameter's text contains a placeholder.
C9_MsgSubstitution ==
    dec_in[1] = "msg" =>
        dec_out.sink = [via |-> "log", text |-> Substituted(dec_in[3], dec_in[4])]

\* C10: no single line of subprocess output ends the read loop or fails the
\* title, with or without the live display: after the line the job is still
\* in its read loop.
C10_DecodingNeverFailsJob ==
    [][ReadsLine => (pc' = "loop" /\ status' = status)]_vars

(***************************************************************************)
(* Stream selection                                                        *)
(***************************************************************************)
\* the stream indexes that command maps with the codec option starting with
\* option, in the order of the command
MappedAs(command, option) ==
    LET at == [k \in 1..Len(command) |-> k]
        Is(k) == /\ command[k][1] = "-map"
                 /\ k < Len(command)
                 /\ command[k + 1][1] = option
        ks == SelectSeq(at, Is)
    IN  [j \in 1..Len(ks) |-> command[ks[j]][2]]

\* every stream index that command maps, in the order of the command
Mapped(command) ==
    LET at == [k \in 1..Len(command) |-> k]
        Is(k) == command[k][1] = "-map"
        ks == SelectSeq(at, Is)
    IN  [j \in 1..Len(ks) |-> command[ks[j]][2]]

Range(seq) == {seq[i] : i \in 1..Len(seq)}

\* encode_file has probed its input and built the command
Built == cmd # <<>>

\* C11: for the probe [video 1920x1080, video 720x480, audio eng 2ch, audio
\* eng 4ch, audio und 6ch, subtitle eng, subtitle fra] the command maps the
\* first video track, then the 2ch eng and the 6ch und audio tracks, then the
\* eng subtitle track, and nothing else.
C11_SevenTrackExample ==
    (Built /\ streams = SevenTracks /\ include_english_subtitles) =>
        Mapped(cmd) = <<0, 2, 4, 5>>

\* C12: an audio track is mapped exactly when its language is "eng", "en" or
\* empty and its channel count is 2 or at least 6; a track with 0 (missing),
\* 1, 3, 4 or 5 channels is never mapped.
C12_AudioSelection ==
    Built =>
        \A i \in 1..Len(streams) :
            streams[i][1] = "audio" =>
                /\ (i - 1 \in Range(MappedAs(cmd, "-c:a"))) <=>
                       (/\ streams[i][5] \in {"eng", "en", ""}
                        /\ (streams[i][4] = 2 \/ streams[i][4] >= 6))
                /\ streams[i][4] \in {0, 1, 3, 4, 5} => i - 1 \notin Range(Mapped(cmd))

C12_Witness ==
    /\ Built
    /\ streams = MixedTracks
    /\ Range(MappedAs(cmd, "-c:a")) = {1, 5}
    /\ final_files # <<>>

\* C13: with subtitles enabled a subtitle track is mapped exactly when its
\* language is "eng" or "en" (an empty language is not mapped, although an
\* audio track with an empty language and accepted channels is); with
\* subtitles disabled no subtitle track is mapped.
C13_SubtitleSelection ==
    Built =>
        \A i \in 1..Len(streams) :
            streams[i][1] = "subtitle" =>
                ((i - 1 \in Range(Mapped(cmd))) <=>
                    (include_english_subtitles /\ streams[i][5] \in {"eng", "en"}))

C13_Witness ==
    /\ Built
    /\ include_english_subtitles
    /\ \E i, j \in 1..Len(streams) :
          /\ streams[i][1] = "subtitle" /\ streams[i][5] = ""
          /\ i - 1 \notin Range(Mapped(cmd))
          /\ streams[j][1] = "audio" /\ streams[j][5] = ""
          /\ j - 1 \in Range(Mapped(cmd))
    /\ \E i \in 1..Len(streams) :
          streams[i][1] = "subtitle" /\ i - 1 \in Range(MappedAs(cmd, "-c:s"))

\* C14: if the probe has a video track, exactly one video track is mapped
\* and no video track has a larger width*height; if it has none, no video is
\* mapped and the command is built all the same.
C14_VideoSelection ==
    Built =>
        LET vids == {i \in 1..Len(streams) : streams[i][1] = "video"}
            mapped == MappedAs(cmd, "-c:v")
        IN  /\ cmd[Len(cmd)][1] = "-y"
            /\ \A k \in 1..Len(Mapped(cmd)) :
                  streams[Mapped(cmd)[k] + 1][1] = "video" => k = 1
            /\ IF vids = {} THEN mapped = <<>>
               ELSE /\ Len(mapped) = 1
                    /\ mapped[1] + 1 \in vids
                    /\ Mapped(cmd)[1] = mapped[1]
                    /\ \A i \in vids :
                          streams[i][2] * streams[i][3]
                              <= streams[mapped[1] + 1][2] * streams[mapped[1] + 1][3]

C14_Witness ==
    /\ Built
    /\ streams = MixedTracks
    /\ MappedAs(cmd, "-c:v") = <<6>>
    /\ eidx > 1

\* C15: the mapped audio tracks appear in the command in the order of the
\* probe, and so do the mapped subtitle tracks: each is a subsequence of the
\* probe's audio (subtitle) tracks.
C15_ProbeOrderKept ==
    Built =>
        \A option \in {"-c:a", "-c:s"} :
            LET mapped == MappedAs(cmd, option)
                kind == IF option = "-c:a" THEN "audio" ELSE "subtitle"
            IN  /\ \A k \in 1..Len(mapped) : streams[mapped[k] + 1][1] = kind
                /\ \A k \in 1..(Len(mapped) - 1) : mapped[k] < mapped[k + 1]

C15_Witness ==
    /\ Built
    /\ streams = MixedTracks
    /\ MappedAs(cmd, "-c:a") = <<1, 5>>
    /\ MappedAs(cmd, "-c:s") = <<0, 7>>

(***************************************************************************)
(* Failures and the run                                                    *)
(***************************************************************************)
\* C16: a title that fails does not stop the run: the step that makes it
\* Failed moves on to the next title and touches neither the list nor another
\* title; the titles are begun in list order; when rip_titles returns, every
\* title has been attempted and the list has one file per Succeeded title
\* (appended in title order, by C3).
C16_FailedTitleIsLocal ==
    /\ [][ \A i \in 1..NTitles :
              (status[i] # "Failed" /\ status'[i] = "Failed") =>
                  /\ i = ti
                  /\ ti' = ti + 1
                  /\ pc' = "next"
                  /\ ripped_files' = ripped_files
                  /\ \A j \in 1..NTitles \ {i} : status'[j] = status[j] ]_vars
    /\ [](\A i \in 1..NTitles :
              status[i] # "Pending" =>
                  \A j \in 1..(i - 1) : status[j] \in {"Succeeded", "Failed"})
    /\ [](pc = "done" =>
              /\ \A i \in 1..NTitles : status[i] \in {"Succeeded", "Failed"}
              /\ Len(ripped_files) = Cardinality({i \in 1..NTitles : status[i] = "Succeeded"}))

\* rip_titles returned after its first title failed and its second succeeded
\* with the file its subprocess wrote
C16_Witness ==
    /\ pc = "done"
    /\ NTitles = 2
    /\ status[1] = "Failed"
    /\ status[2] = "Succeeded"
    /\ ripped_files = <<FileAB(title_ids[2])>>
    /\ files[FileAB(title_ids[2])].mtime >= StartTime

\* one iteration of the encode loop
Encodes == pc = "encode" /\ eidx' = eidx + 1

\* C17: an iteration whose encode fails adds nothing to the final list,
\* leaves its ripped source in place and goes on with the next ripped file;
\* a ripped file is deleted only by the iteration that encoded it, which also
\* adds its result to the final list; the loop ends only after every ripped
\* file had its iteration.
C17_EncodeFailureIsLocal ==
    /\ [][ Encodes =>
              LET source == ripped_files[eidx]
                  deleted == (Names(files) \ Names(files')) \cap Range(ripped_files)
              IN  /\ pc' = "encode"
                  /\ ripped_files' = ripped_files
                  /\ deleted \subseteq {source}
                  /\ \/ /\ final_files' = final_files
                        /\ deleted = {}
                     \/ /\ \E f \in {"output", "temp"} \X
                                    {OutputName(is_tv_series, eidx), FinalName(is_tv_series, eidx)} :
                              final_files' = Append(final_files, f)
                        /\ source \in Names(files) ]_vars
    /\ [][ (pc = "encode" /\ pc' # "encode") =>
              (pc' = "finished" /\ eidx = Len(ripped_files) + 1) ]_vars
    /\ [][ (pc # "encode" /\ pc' = "encode") => (eidx' = 1 /\ final_files' = <<>>) ]_vars

\* the encode of the first of two ripped files failed, the second was
\* encoded, renamed and its source deleted
C17_Witness ==
    /\ pc = "finished"
    /\ Len(ripped_files) = 2
    /\ ripped_files[1] # ripped_files[2]
    /\ final_files = << <<"output", FinalName(TRUE, 2)>> >>
    /\ ripped_files[1] \in Names(files)
    /\ ripped_files[2] \notin Names(files)

\* C18: a shortfall of free space (free bytes below the estimate inflated by
\* 5%, in whole bytes) is only warned about: the step that makes the check
\* gives the warning exactly then, fails nothing and leaves the job at the
\* spawn of its subprocess; and no title is Failed without one of the failure
\* reports of the job itself.
C18_SpaceCheckOnlyWarns ==
    /\ [][ (pc = "next" /\ ti <= NTitles /\ pc' \notin {"next", "cancelled"}) =>
              LET est == ReportedSize(disc_info, title_id)
                  short == est > 0 /\ free_temp < (est * 105) \div 100
              IN  /\ space_warned' = short
                  /\ pc' = "spawn"
                  /\ ti' = ti
                  /\ status' = [status EXCEPT ![ti] = "Running"]
                  /\ report' = report
                  /\ ripped_files' = ripped_files ]_vars
    /\ [](\A i \in 1..NTitles :
              status[i] = "Failed" =>
                  report[i].kind \in {"exitcode", "notfound", "exception"})

\* a title for which the warning was given and whose rip succeeded
C18_Witness ==
    /\ space_warned
    /\ free_temp > est_title_bytes
    /\ status[1] = "Succeeded"
    /\ ripped_files = <<FileAB(title_ids[1])>>

\* C19: at most one rip subprocess is alive: when the subprocess of a title
\* is spawned, no subprocess of an earlier title is left that has not exited
\* and been waited on.
C19_OneSubprocessAtATime ==
    [][ (pc = "spawn" /\ pc' = "loop") => proc.state \in {"none", "reaped"} ]_vars

\* C20: when the exit of a subprocess with code 0 is collected, the live
\* display of that job shows 100 afterwards, whatever it showed before.
C20_SuccessShowsHundred ==
    [][ (Reaps /\ proc.code = 0 /\ rich) => completed' = 100 ]_vars

\* the exit with code 0 was collected before any update of the display,
\* which showed 0
C20_Witness ==
    /\ rich
    /\ pc = "next"
    /\ ti = 2
    /\ iter = 0
    /\ proc = [state |-> "reaped", code |-> 0]
    /\ completed = 100
    /\ status[1] = "Succeeded"

(***************************************************************************)
(* Decoder, second part                                                    *)
(***************************************************************************)
\* C21: for a PRGV line with raw value r >= 0 the percent is r/1000 if
\* r >= 100000, else r/100 if r > 100, else r, then capped at 100 (here in
\* thousandths of a percent); the integer given to the display and to the
\* log is that value truncated.
C21_PrgvNormalization ==
    (dec_in[1] = "prgv" /\ dec_in[2] >= 0) =>
        LET r == dec_in[2]
            scaled == IF r >= 100000 THEN r ELSE IF r > 100 THEN 10 * r ELSE 1000 * r
            m == IF scaled > 100000 THEN 100000 ELSE scaled
            Truncated(n) == n * 1000 <= m /\ m < (n + 1) * 1000
        IN  /\ dec_out.pct = <<m>>
            /\ Truncated(dec_out.last_pct_logged)
            /\ rich => Truncated(dec_out.completed)

\* the raw value 7500 was decoded as 75 percent and shown as 75
C21_Witness ==
    /\ dec_in[1] = "prgv"
    /\ dec_in[2] = 7500
    /\ rich
    /\ dec_out.pct = <<75000>>
    /\ dec_out.completed = 75

\* C22: a MSG line with fewer than 4 fields, or whose quoting cannot be
\* parsed (a quote that is never closed, a line break inside an unquoted
\* field), is emitted as the line itself, and decoding it raises nothing.
C22_MalformedMsgPassthrough ==
    LET line == Strip(dec_in[5])
        At(c) == {i \in 1..Len(line) : line[i] = c}
        plain == At(Quote) = {} /\ At("\\") = {}
        fewFields == plain /\ At("CR") = {} /\ At("LF") = {} /\ Cardinality(At(",")) < 3
        brokenLine == plain /\ \E i \in At("CR") \cup At("LF") : i < Len(line)
        openQuote == Cardinality(At(Quote)) % 2 = 1
    IN  (dec_in[1] = "other" /\ StartsWith(line, MsgPrefix)) =>
            /\ ~dec_out.raised
            /\ (fewFields \/ brokenLine \/ openQuote) =>
                   dec_out.sink = [via |-> "log", text |-> line]

\* C23: a line with one of the structural prefixes (PRGT:, DRV:, TCOUNT:,
\* CINFO:, SINFO:, TINFO:, STRACK:, ATRACK:, VTRACK:) is written nowhere and
\* changes neither the phase nor the decoded percent nor the display; a line
\* with none of these prefixes that is not PRGV:/PRGC:/MSG: is forwarded as
\* it is.
C23_StructuralLinesSilent ==
    LET line == Strip(dec_in[5])
        Has(prefix) == Len(line) >= Len(prefix) /\ SubSeq(line, 1, Len(prefix)) = prefix
        structural ==
            \E p \in { <<"P", "R", "G", "T", ":">>, <<"D", "R", "V", ":">>,
                       <<"T", "C", "O", "U", "N", "T", ":">>, <<"C", "I", "N", "F", "O", ":">>,
                       <<"S", "I", "N", "F", "O", ":">>, <<"T", "I", "N", "F", "O", ":">>,
                       <<"S", "T", "R", "A", "C", "K", ":">>, <<"A", "T", "R", "A", "C", "K", ":">>,
                       <<"V", "T", "R", "A", "C", "K", ":">> } : Has(p)
        decoded ==
            \E p \in { <<"P", "R", "G", "V", ":">>, <<"P", "R", "G", "C", ":">>,
                       <<"M", "S", "G", ":">> } : Has(p)
    IN  dec_in[1] = "other" =>
            /\ structural =>
                  /\ dec_out.sink = NoSink
                  /\ dec_out.saving_phase = saving_phase
                  /\ dec_out.pct = <<>>
                  /\ dec_out.completed = completed
                  /\ ~dec_out.raised
            /\ (~structural /\ ~decoded) =>
                  /\ dec_out.sink.text = line
                  /\ dec_out.sink.via \in {"print", "debug"}
                  /\ ~dec_out.raised

(***************************************************************************)
(* The job of a title: cleanup, read loop, fallback                        *)
(***************************************************************************)
\* the files in the temp directory named *_t<NN>.mkv or title_t<NN>.mkv for
\* the current title
Leftovers ==
    {n \in Names(files) :
        \/ Len(n) >= Len(TitleSuffix(title_id))
             /\ SubSeq(n, Len(n) - Len(TitleSuffix(title_id)) + 1, Len(n)) = TitleSuffix(title_id)
        \/ n = FileTitle(title_id)}

\* C24: the step that makes a title Running deletes the leftover files of
\* that title and nothing else, and ends at the spawn whether or not a
\* deletion failed; a subprocess is started only from there; at the spawn
\* the leftover files present are exactly those whose deletion failed (none
\* when every deletion succeeded).
C24_CleanupBeforeSpawn ==
    /\ [][ (pc = "next" /\ ti <= NTitles /\ pc' \notin {"next", "cancelled"}) =>
              /\ pc' = "spawn"
              /\ undeleted' \subseteq Leftovers
              /\ Names(files') = (Names(files) \ Leftovers) \cup undeleted'
              /\ \A n \in Names(files') : files'[n] = files[n] ]_vars
    /\ [][ (proc.state # "running" /\ proc'.state = "running") => pc = "spawn" ]_vars
    /\ [](pc = "spawn" => Leftovers = undeleted)

\* at the spawn of title 0 its leftover file of an earlier run is gone and
\* the unrelated file next to it is still there
C24_Witness ==
    /\ pc = "spawn"
    /\ title_id = 0
    /\ undeleted = {}
    /\ Leftovers = {}
    /\ FileVideo \in Names(files)
    /\ files[FileVideo].mtime = 1

\* the read loop of the current title is running
InLoop == pc \in {"loop", "readline"}

\* C25: the read loop ends only when the subprocess has exited, its stdout
\* is at end of file and every line it wrote has been read; it never ends
\* while the subprocess is running.
C25_LoopEndsAtExitAndEof ==
    [][ (InLoop /\ ~InLoop') =>
            (proc.state = "exited" /\ stdout = "closed" /\ pipe = <<>>) ]_vars

\* C26: once the subprocess has exited and its output is read to the end of
\* file, the read loop ends and the title gets its outcome; and an iteration
\* on which no line was ready also notices that the subprocess has exited
\* and ends the loop.
C26_ExitIsNoticed ==
    /\ (InLoop /\ proc.state = "exited" /\ pipe = <<>> /\ stdout = "closed")
            ~> (~InLoop /\ status[1] \in {"Succeeded", "Failed"})
    /\ [][ (pc = "loop" /\ pipe = <<>> /\ proc.state = "exited" /\ iter' = iter + 1)
                => ~InLoop' ]_vars

\* C27: the read loop never waits inside the read of a line: it suspends
\* only in the bounded wait for readiness, also when the subprocess has
\* written part of a line without its terminator.
C27_NeverBlocksOnRead ==
    pc # "readline"

\* an iteration of the read loop on which no line was ready: the fallback
\* alone acts on the display
FallbackTick == pc = "loop" /\ pipe = <<>> /\ iter' = iter + 1 /\ rich

\* the fallback of this iteration made no size-based guess: it found no
\* file, or a file but no estimate
NoSizeGuess == mkv_candidate' = <<>> \/ est_title_bytes = 0

\* C28: on a fallback tick without a size-based guess the displayed value
\* rises by at most one point.
C28_KeepAliveOnePoint ==
    [][ (FallbackTick /\ NoSizeGuess) => completed' <= completed + 1 ]_vars

\* the line at the head of the pipe is a PRGV record whose value shows as 100
HeadIsPrgvHundred ==
    /\ pipe # <<>>
    /\ StartsWith(Strip(Head(pipe)), <<"P", "R", "G", "V", ":">>)
    /\ PrgvValue(Strip(Head(pipe))).ok
    /\ PrgvValue(Strip(Head(pipe))).pct_int = 100

\* the fallback of this iteration made a size-based guess of 100
SizeGuessHundred ==
    /\ mkv_candidate' # <<>>
    /\ est_title_bytes > 0
    /\ PctGuess(files[mkv_candidate'].size, est_title_bytes) = 100

\* C29: a fallback tick without a size-based guess never sets the displayed
\* value above 99; while the read loop runs the display comes to show 100
\* only by a PRGV value or by a size-based guess.
C29_KeepAliveBelowHundred ==
    /\ [][ (FallbackTick /\ NoSizeGuess) =>
              (completed' = completed \/ completed' <= 99) ]_vars
    /\ [][ (pc = "loop" /\ pc' = "loop" /\ rich /\ completed # 100 /\ completed' = 100) =>
              (HeadIsPrgvHundred \/ SizeGuessHundred) ]_vars

\* the keep-alive rule has taken the display to its cap
C29_Witness ==
    /\ pc = "loop" /\ rich /\ proc.state = "running"
    /\ est_title_bytes = 0 /\ mkv_candidate # <<>>
    /\ completed = 99 /\ last_completed = 99

\* the line at the head of the pipe is a PRGC record whose caption contains
\* the word Saving
HeadIsSavingCaption ==
    /\ pipe # <<>>
    /\ StartsWith(Strip(Head(pipe)), <<"P", "R", "G", "C", ":">>)
    /\ Contains(CaptionMatch(Strip(Head(pipe))), SavingWord)

\* C30: within a job the Saving phase begins exactly on the iteration that
\* reads a PRGC caption containing "Saving" and lasts to the end of the job;
\* a size-based guess made in the Reading phase changes the display only
\* by raising it, and one made in the Saving phase replaces it.
C30_SavingPhaseAndGuess ==
    /\ [][ (pc = "loop" /\ pc' = "loop") =>
              saving_phase' = (saving_phase \/ (iter' = iter + 1 /\ HeadIsSavingCaption)) ]_vars
    /\ [][ (FallbackTick /\ ~NoSizeGuess) =>
              LET guess == PctGuess(files[mkv_candidate'].size, est_title_bytes)
              IN  IF saving_phase THEN completed' = guess
                  ELSE completed' = completed \/ (completed' = guess /\ guess > completed) ]_vars

(***************************************************************************)
(* Estimate, spawn, probe and log                                          *)
(***************************************************************************)
\* the duration the tool reported for the current title (0: none)
ReportedDuration ==
    LET t == TitleInfo(disc_info, title_id) IN IF t = <<>> THEN 0 ELSE t[1].duration

\* C31: a title whose size is not reported and whose duration is positive
\* gets, at the spawn, the estimate duration x 2.5 MiB and an entry in the
\* log that marks it as approximate; a reported size is kept as it is and
\* is not marked; the estimate does not change while the job's loop runs.
C31_ApproximateEstimate ==
    /\ [][ (pc = "spawn" /\ pc' = "loop") =>
              IF ReportedSize(disc_info, title_id) # 0
              THEN est_title_bytes' = ReportedSize(disc_info, title_id) /\ ~approx_logged'
              ELSE IF ReportedDuration > 0
              THEN /\ 2 * est_title_bytes' = ReportedDuration * 5 * 1024 * 1024
                   /\ approx_logged'
              ELSE est_title_bytes' = 0 /\ ~approx_logged' ]_vars
    /\ [][ (pc = "loop" /\ pc' = "loop") =>
              (est_title_bytes' = est_title_bytes /\ approx_logged' = approx_logged) ]_vars

\* C32: a failure to spawn the subprocess of a title ends the run: no later
\* title of the list is attempted.  (With Rich installed a job is left by
\* an exception only when the spawn failed.)
C32_SpawnFailureIsFatal ==
    rich => \A i \in 1..NTitles : \A j \in 1..NTitles :
               (i < j /\ report[i].kind = "exception") => status[j] = "Pending"

\* the files the size probe of the current job may take by the three rules:
\* the expected file; else the newest file of the title's globs; else the
\* newest .mkv modified since the job started
ProbeByRule ==
    LET byGlob == {n \in Names(files) : MatchStarT(n, title_id) \/ MatchTitleT(n, title_id)}
        recent == {n \in Names(files) : MatchMkv(n) /\ files[n].mtime >= rip_start_ts}
    IN  IF expected_file # <<>> /\ expected_file \in Names(files) THEN {expected_file}
        ELSE IF byGlob # {} THEN Newest(files, byGlob)
        ELSE Newest(files, recent)

\* C33: the file the in-progress size probe takes is chosen by the three
\* rules in their order, and when no rule gives a file the probe has none.
C33_ProbeOrder ==
    [][ FallbackTick =>
           IF ProbeByRule = {} THEN mkv_candidate' = <<>>
           ELSE mkv_candidate' \in ProbeByRule ]_vars

\* the line at the head of the pipe is a PRGV record with a value
HeadIsPrgv ==
    /\ pipe # <<>>
    /\ StartsWith(Strip(Head(pipe)), <<"P", "R", "G", "V", ":">>)
    /\ PrgvValue(Strip(Head(pipe))).ok

\* C34: an iteration that reads a PRGV line writes one progress entry, with
\* the line's integer percent, when that percent differs from the one of
\* the last entry written, and none when it repeats it; an iteration with
\* no line ready writes no progress entry.
C34_ProgressLogGranularity ==
    /\ [][ (pc = "loop" /\ HeadIsPrgv /\ iter' = iter + 1) =>
              LET p == PrgvValue(Strip(Head(pipe))).pct_int
              IN  IF p # logged_pct THEN log_emitted' /\ logged_pct' = p
                  ELSE ~log_emitted' /\ logged_pct' = logged_pct ]_vars
    /\ [][ (pc = "loop" /\ pipe = <<>> /\ iter' = iter + 1) =>
              (~log_emitted' /\ logged_pct' = logged_pct) ]_vars

(***************************************************************************)
(* Stream selection, second part                                           *)
(***************************************************************************)
\* the positions of the probe that a command built from it has to map, in
\* order: the earliest of the largest video tracks, the accepted audio
\* tracks, the accepted subtitle tracks
SelectionOf(strs, withSubtitles) ==
    LET at == [i \in 1..Len(strs) |-> i]
        Largest(i) == /\ strs[i][1] = "video"
                      /\ \A j \in 1..Len(strs) :
                            strs[j][1] = "video" =>
                                /\ strs[j][2] * strs[j][3] <= strs[i][2] * strs[i][3]
                                /\ j < i => strs[j][2] * strs[j][3] < strs[i][2] * strs[i][3]
        Audio(i) == /\ strs[i][1] = "audio"
                    /\ strs[i][5] \in {"eng", "en", ""}
                    /\ (strs[i][4] = 2 \/ strs[i][4] >= 6)
        Subtitle(i) == withSubtitles /\ strs[i][1] = "subtitle" /\ strs[i][5] \in {"eng", "en"}
    IN  SelectSeq(at, Largest) \o SelectSeq(at, Audio) \o SelectSeq(at, Subtitle)

\* C35: the mappings of a command are a function of the probed list and of
\* the subtitle switch alone; among several video tracks of the largest
\* width*height the one earliest in the probe is mapped.
C35_SelectionIsAFunction ==
    Built =>
        LET want == SelectionOf(streams, include_english_subtitles)
        IN  Mapped(cmd) = [k \in 1..Len(want) |-> want[k] - 1]

C35_Witness ==
    /\ Built
    /\ streams = << <<"video", 720, 480, 0, "">>, <<"video", 1920, 1080, 0, "">>,
                    <<"video", 1920, 1080, 0, "">> >>
    /\ Mapped(cmd) = <<1>>

\* the numbers of the codec options of command that start with option, in
\* the order of the command
CodecNumbers(command, option) ==
    LET at == [k \in 1..Len(command) |-> k]
        Is(k) == command[k][1] = option
        ks == SelectSeq(at, Is)
    IN  [j \in 1..Len(ks) |-> command[ks[j]][2]]

\* C36: in the command every -map is followed at once by one codec option;
\* the k-th mapped audio track (k from 0) has -c:a:k and the k-th mapped
\* subtitle track -c:s:k, without gap or repeat; the output path is last.
C36_CodecArguments ==
    Built =>
        /\ cmd[Len(cmd)][1] = "-y"
        /\ \A k \in 1..(Len(cmd) - 1) : cmd[k][1] # "-y"
        /\ \A k \in 1..Len(cmd) :
              /\ cmd[k][1] = "-map" =>
                    (k < Len(cmd) /\ cmd[k + 1][1] \in {"-c:v", "-c:a", "-c:s"})
              /\ cmd[k][1] \in {"-c:v", "-c:a", "-c:s"} => (k > 1 /\ cmd[k - 1][1] = "-map")
        /\ \A option \in {"-c:a", "-c:s"} :
              /\ Len(CodecNumbers(cmd, option)) = Len(MappedAs(cmd, option))
              /\ \A j \in 1..Len(CodecNumbers(cmd, option)) :
                    CodecNumbers(cmd, option)[j] = j - 1

C36_Witness ==
    /\ Built
    /\ streams = MixedTracks
    /\ include_english_subtitles
    /\ MappedAs(cmd, "-c:a") = <<1, 5>> /\ CodecNumbers(cmd, "-c:a") = <<0, 1>>
    /\ MappedAs(cmd, "-c:s") = <<0, 7>> /\ CodecNumbers(cmd, "-c:s") = <<0, 1>>

(***************************************************************************)
(* The display at the end of a job, the cleanup, the estimator's record    *)
(***************************************************************************)
\* C37: with a live display, the step that collects the exit code of the
\* subprocess sets the displayed value to 100 and stops the display, for
\* every exit code, and does both before it logs the outcome.
C37_ExitStopsDisplay ==
    [][ (Reaps /\ progress_bar) =>
           /\ completed' = 100
           /\ liveActive' = liveActive - 1
           /\ finish_order' = <<"completed=100", "live.stop", report'[ti].kind>> ]_vars

\* a job whose subprocess exited with a nonzero code: the display shows 100
\* and is stopped, and the failure was logged after that
C37_Witness ==
    /\ pc = "next" /\ ti = 2 /\ rich
    /\ report[1] = [kind |-> "exitcode", code |-> 1]
    /\ completed = 100 /\ liveActive = 0
    /\ finish_order = <<"completed=100", "live.stop", "exitcode">>


\* the step that makes the next title Running
BeginsTitle == pc = "next" /\ ti <= NTitles /\ pc' = "spawn"

\* the name matches one of the two patterns removed before title tid's rip
MatchesTitle(n, tid) == MatchStarT(n, tid) \/ MatchTitleT(n, tid)

\* C38: the cleanup that precedes a title's rip removes only files matching
\* that title's two patterns and leaves every other file as it was; the file
\* written by the subprocess of the title ripped before it in the same run
\* is still there, with the same size and modification time, after the
\* cleanup of the later title.
C38_CleanupIsPerTitle ==
    [][ BeginsTitle =>
          /\ \A n \in Names(files) \ Names(files') : MatchesTitle(n, title_id)
          /\ \A n \in Names(files) \cap Names(files') : files'[n] = files[n]
          /\ Names(files') \subseteq Names(files)
          /\ (ti > 1 /\ procFile # <<>> /\ procFile \in Names(files)) =>
                /\ procFile \in Names(files')
                /\ files'[procFile] = files[procFile] ]_vars

\* title 1 is at its spawn: its leftover file of an earlier run has been
\* removed, the file ripped for title 0 is listed and still in the directory
C38_Witness ==
    /\ pc = "spawn"
    /\ ti = 2
    /\ ripped_files = <<FileAB(0)>>
    /\ procFile = FileAB(0)
    /\ FileAB(0) \in Names(files)
    /\ files[FileAB(0)].mtime >= StartTime
    /\ FileAB(1) \notin Names(files)
    /\ undeleted = {}

\* C39: a live display is started only when none is active, on every path
\* that leads to the next title, a failed Popen and an exception in the read
\* loop included; at most one live display is active at any time.
C39_OneDisplayAtATime ==
    /\ [][ (BeginsTitle /\ rich) => liveActive = 0 ]_vars
    /\ [](liveActive <= 1)

\* C40: while the read loop of a job with a live display runs, the value
\* recorded in progress._last_completed is the value the display shows, after
\* an update made for a PRGV line as after one made by the fallback.
C40_LastCompletedTracksDisplay ==
    (rich /\ pc = "loop") => last_completed = completed

=============================================================================
